---- MODULE Spec2Model ----
(***************************************************************************)
(* State-machine model of the Pane of src/src/pane.rs: the item list, the  *)
(* active index, the zoom flag, the events a call emits, the deactivated   *)
(* hooks it invokes and the close_items tasks.                             *)
(*                                                                         *)
(* Indices are 0-based as in the source; At, RemoveAt and InsertAt map     *)
(* them onto TLA+ sequences.  Option<usize> is NoneIx (-1) for None.       *)
(*                                                                         *)
(* The focus is state of the window, not of the pane: has_focus is an      *)
(* input of the operations that read it, and the calls that move the focus *)
(* (focus_handle.focus, focus_active_item under focus_item) change nothing *)
(* of the pane.                                                            *)
(***************************************************************************)
EXTENDS Integers, Sequences, FiniteSets, TLC

\* Bounds of the model.
NumItems == 3          \* item ids are 1..NumItems
NumTasks == 2          \* slots for spawned close_items tasks
NumTabs == 2           \* items handed to tab_details
MaxLevel == 1          \* the detail level from which every tab description is constant
MaxSide == 2           \* the bounds of a drag move are up to MaxSide * 100 px wide and high
NumPanels == 2         \* panel ids are 1..NumPanels; a dock holds up to NumPanels entries
NumHandles == 1        \* item handles given to added_to_pane are 1..NumHandles
NumPanes == 2          \* the panes of the workspace are 1..NumPanes
MaxItemEvents == 2     \* ItemEvents that to_item_events yields for one event of an item

ItemIds == 1..NumItems
Tasks == 1..NumTasks
NoneIx == 0 - 1
NoItem == 0
NoTask == 0

VARIABLES
    items,              \* Pane::items, as the sequence of item ids
    active_item_index,  \* Pane::active_item_index
    zoomed,             \* Pane::zoomed
    emitted,            \* events emitted (cx.emit) by the last operation, in order
    deactivated,        \* ids whose deactivated hook the last operation invoked, in order
    tasks,              \* the close_items tasks: captured items, loop position, history
    last,               \* the last operation, its arguments and the pane before it
    status              \* "alive", "released" (the pane entity is dropped) or
                        \* "panicked" (a call panicked)

paneVars == <<items, active_item_index, zoomed, emitted, deactivated, tasks, last, status>>

\* What two close_items tasks that run on the pane at once have emitted
VARIABLE
    removals            \* per item id the RemoveItem events emitted for it, and
                        \* under NoItem the Remove events

logVars == <<removals>>

\* A call of tab_details
VARIABLES
    tab_description,    \* Item::tab_description: per item, the description at
                        \* the levels 0..MaxLevel (and at every level above)
    tab_details,        \* the local vector tab_details
    done                \* the local flag done

tabVars == <<tab_description, tab_details, done>>

\* Dragging a tab over the pane and dropping it
VARIABLES
    can_split,              \* Pane::can_split
    custom_drop_handle,     \* Pane::custom_drop_handle is Some
    drag_split_direction,   \* Pane::drag_split_direction
    workspace,              \* Pane::workspace: the entity is "alive" or "released"
    gesture,                \* the last drag move or drop and its arguments
    deferred                \* the calls on the workspace that the last drop deferred

dragVars == <<can_split, custom_drop_handle, drag_split_direction, workspace,
              gesture, deferred>>

\* A Dock of src/src/dock.rs, its panels and the zoom record of the workspace
VARIABLES
    panel_entries,          \* Dock::panel_entries, as the sequence of panel ids
    active_panel_index,     \* Dock::active_panel_index
    is_open,                \* Dock::is_open
    panel_zoomed,           \* per panel, what Panel::is_zoomed returns
    panel_active,           \* per panel, the last value given to Panel::set_active
    ws_zoomed,              \* Workspace::zoomed, a panel id or NoPanel
    ws_zoomed_position,     \* Workspace::zoomed_position, a position or NoPosition
    dock_last               \* the last operation on the dock and its arguments

dockVars == <<panel_entries, active_panel_index, is_open, panel_zoomed, panel_active,
              ws_zoomed, ws_zoomed_position, dock_last>>

\* The items the workspace has been told of by ItemHandle::added_to_pane of
\* src/src/item.rs, and the panes their events go to
VARIABLES
    panes_by_item,          \* Workspace::panes_by_item: per item, a pane or NoPane
    event_subscription,     \* per item, the number of live subscriptions of the
                            \* workspace to the events of the item
    item_status,            \* per item, the entity is "alive" or "released"
    pane_status,            \* per pane, the entity is "alive" or "released"
    owner,                  \* per item, the pane of the last added_to_pane call
    added_again,            \* per item, added_to_pane was called more than once
    item_last               \* the last call or event and the calls on panes it made

itemVars == <<panes_by_item, event_subscription, item_status, pane_status, owner,
              added_again, item_last>>

\* What the methods on the items of the pane leave alone
nonPaneVars == <<tabVars, dragVars, dockVars, itemVars, logVars>>

nonTabVars == <<paneVars, dragVars, dockVars, itemVars, logVars>>

nonDragVars == <<paneVars, tabVars, dockVars, itemVars, logVars>>

nonDockVars == <<paneVars, tabVars, dragVars, itemVars, logVars>>

nonItemVars == <<paneVars, tabVars, dragVars, dockVars, logVars>>

vars == <<paneVars, tabVars, dragVars, dockVars, itemVars, logVars>>

----------------------------------------------------------------------------
\* Vec helpers with the source's 0-based indices.

Min(a, b) == IF a < b THEN a ELSE b

\* usize::saturating_sub
saturating_sub(a, b) == IF a > b THEN a - b ELSE 0

At(s, i) == s[i + 1]

RemoveAt_last(s, i) == SubSeq(s, 1, Len(s) - 1)

\* Vec::remove(i), i < len
RemoveAt(s, i) == SubSeq(s, 1, i) \o SubSeq(s, i + 2, Len(s))

InsertAt_overwriting(s, i, x) == SubSeq(s, 1, i) \o <<x>> \o SubSeq(s, i + 2, Len(s))

\* Vec::insert(i, x), i <= len
InsertAt(s, i, x) == SubSeq(s, 1, i) \o <<x>> \o SubSeq(s, i + 1, Len(s))

position_none(s, id) == NoneIx

\* Iterator::position(|i| i.item_id() == id): the first index, or NoneIx
position(s, id) ==
    IF \E k \in 1..Len(s) : s[k] = id
    THEN (CHOOSE k \in 1..Len(s) : s[k] = id /\ \A j \in 1..(k - 1) : s[j] # id) - 1
    ELSE NoneIx

SeqToSet(s) == {s[k] : k \in 1..Len(s)}

----------------------------------------------------------------------------
\* Events (pane.rs, enum Event), as uniform records.

Ev(type, id, local) == [type |-> type, item_id |-> id, local |-> local]
EvAddItem(id) == Ev("AddItem", id, FALSE)
EvActivateItem(local) == Ev("ActivateItem", NoItem, local)
EvRemove == Ev("Remove", NoItem, FALSE)
EvRemoveItem(id) == Ev("RemoveItem", id, FALSE)
EvZoomOut == Ev("ZoomOut", NoItem, FALSE)

\* The pane as one value, threaded through the methods below.
ThePane ==
    [items |-> items, active_item_index |-> active_item_index, zoomed |-> zoomed,
     emitted |-> <<>>, deactivated |-> <<>>]

emit(p, e) == [p EXCEPT !.emitted = Append(@, e)]

call_deactivated_twice(p, id) == [p EXCEPT !.deactivated = Append(Append(@, id), id)]

\* item.deactivated(window, cx)
call_deactivated(p, id) == [p EXCEPT !.deactivated = Append(@, id)]

----------------------------------------------------------------------------
\* Pane::activate_item

activate_item_keep_index(p, index, activate_pane) ==
    IF index < Len(p.items) THEN emit(p, EvActivateItem(activate_pane)) ELSE p

activate_item(p, index, activate_pane) ==
    IF index < Len(p.items)
    THEN LET prev_active_item_ix == p.active_item_index
             p1 == [p EXCEPT !.active_item_index = index]
             p2 == IF prev_active_item_ix # index /\ prev_active_item_ix < Len(p.items)
                   THEN call_deactivated(p1, At(p.items, prev_active_item_ix))
                   ELSE p1
         IN  emit(p2, EvActivateItem(activate_pane))
    ELSE p

----------------------------------------------------------------------------
\* Pane::remove_item, item_index < items.len()

index_to_activate_same(item_index, len) == Min(item_index, len)

index_to_activate(item_index, len) == saturating_sub(Min(item_index, len), 1)

active_after_remove_no_shift(item_index, active) == active

\* if item_index < self.active_item_index { self.active_item_index -= 1 }
active_after_remove(item_index, active) ==
    IF item_index < active THEN active - 1 ELSE active

emit_remove_always(p, item) ==
    IF p.items = <<>> THEN emit(call_deactivated(p, item), EvRemove) ELSE emit(p, EvRemove)

\* if self.items.is_empty() { item.deactivated(); cx.emit(Event::Remove) }
emit_remove_if_empty(p, item) ==
    IF p.items = <<>> THEN emit(call_deactivated(p, item), EvRemove) ELSE p

emit_zoom_out_ignoring_zoom(p) ==
    IF p.items = <<>> THEN emit(p, EvZoomOut) ELSE p

\* if self.items.is_empty() && close_pane_if_empty && self.zoomed { emit ZoomOut }
emit_zoom_out_if_empty(p) ==
    IF p.items = <<>> /\ p.zoomed THEN emit(p, EvZoomOut) ELSE p

remove_item(p, item_index, activate_pane, has_focus) ==
    LET should_activate == activate_pane \/ has_focus
        p1 == IF item_index = p.active_item_index
              THEN IF Len(p.items) = 1 /\ should_activate
                   THEN p      \* self.focus_handle.focus(window)
                   ELSE activate_item(p, index_to_activate(item_index, Len(p.items)),
                                      should_activate)
              ELSE p
        item == At(p1.items, item_index)
        p2 == emit([p1 EXCEPT !.items = RemoveAt(@, item_index)], EvRemoveItem(item))
        p3 == emit_remove_if_empty(p2, item)
        p4 == [p3 EXCEPT !.active_item_index = active_after_remove(item_index, @)]
    IN  emit_zoom_out_if_empty(p4)

----------------------------------------------------------------------------
\* Pane::add_item

\* cmp::min(destination_index or active_item_index + 1, items.len())
insertion_index(destination_index, active, len) ==
    Min(IF destination_index # NoneIx THEN destination_index ELSE active + 1, len)

move_existing_keep_copy(p, item, existing_item_index, insertion_index0) ==
    LET ins == Min(insertion_index0, Len(p.items))
    IN  [pane |-> [p EXCEPT !.items = InsertAt(@, ins, item),
                            !.active_item_index =
                                IF ins <= @ THEN @ + 1 ELSE @],
         insertion_index |-> ins]

\* The else branch of "existing_item_is_active && destination_index.is_none()":
\* remove the existing entry, re-insert it and correct the active index.
move_existing(p, item, existing_item_index, insertion_index0) ==
    LET existing_item_is_active == existing_item_index = p.active_item_index
        items1 == RemoveAt(p.items, existing_item_index)
        active1 == IF existing_item_index < p.active_item_index
                   THEN p.active_item_index - 1
                   ELSE p.active_item_index
        ins == Min(insertion_index0, Len(items1))
        items2 == InsertAt(items1, ins, item)
        active2 == IF existing_item_is_active THEN ins
                   ELSE IF ins <= active1 THEN active1 + 1 ELSE active1
    IN  [pane |-> [p EXCEPT !.items = items2, !.active_item_index = active2],
         insertion_index |-> ins]

add_item_no_activate(p, item, activate_pane, destination_index) ==
    LET ins0 == insertion_index(destination_index, p.active_item_index, Len(p.items))
        existing_item_index == position(p.items, item)
    IN  IF existing_item_index # NoneIx
        THEN LET m == IF existing_item_index # ins0
                      THEN IF existing_item_index = p.active_item_index
                              /\ destination_index = NoneIx
                           THEN [pane |-> p, insertion_index |-> existing_item_index]
                           ELSE move_existing(p, item, existing_item_index, ins0)
                      ELSE [pane |-> p, insertion_index |-> ins0]
             IN  emit(m.pane, EvAddItem(item))
        ELSE LET p1 == [p EXCEPT !.items = InsertAt(@, ins0, item),
                                 !.active_item_index = IF ins0 <= @ THEN @ + 1 ELSE @]
             IN  emit(p1, EvAddItem(item))

add_item(p, item, activate_pane, destination_index) ==
    LET ins0 == insertion_index(destination_index, p.active_item_index, Len(p.items))
        existing_item_index == position(p.items, item)
    IN  IF existing_item_index # NoneIx
        THEN LET m == IF existing_item_index # ins0
                      THEN IF existing_item_index = p.active_item_index
                              /\ destination_index = NoneIx
                           THEN [pane |-> p, insertion_index |-> existing_item_index]
                           ELSE move_existing(p, item, existing_item_index, ins0)
                      ELSE [pane |-> p, insertion_index |-> ins0]
             IN  emit(activate_item(m.pane, m.insertion_index, activate_pane),
                      EvAddItem(item))
        ELSE LET p1 == [p EXCEPT !.items = InsertAt(@, ins0, item),
                                 !.active_item_index = IF ins0 <= @ THEN @ + 1 ELSE @]
             IN  emit(activate_item(p1, ins0, activate_pane), EvAddItem(item))

\* Pane::activate_prev_item: the index it activates
prev_item_index(active, len) ==
    IF active > 0 THEN active - 1
    ELSE IF len # 0 THEN len - 1 ELSE active

\* Pane::activate_next_item: the index it activates
next_item_index(active, len) ==
    IF active + 1 < len THEN active + 1 ELSE 0

----------------------------------------------------------------------------
\* Pane::close_items: the task it spawns.  remaining is the iterator of
\* "for item in items_to_close".  Every pane.update_in of the loop is an
\* update of its own, whose effects (the emitted events) are flushed to the
\* subscribers when it returns, so other operations on the pane can run
\* between two iterations.  snapshot, kept, removed, interleaved and skipped
\* are the history of the task: the item list when close_items was called,
\* its items that did not match, the ids of the RemoveItem events of the
\* task's steps, whether another pane operation ran since the call and
\* whether a step found its item gone.  snapshot, kept and removed are kept
\* only as long as nothing interleaves.

IdleTask ==
    [pc |-> "idle", remaining |-> <<>>, snapshot |-> <<>>, kept |-> <<>>,
     removed |-> <<>>, interleaved |-> FALSE, skipped |-> FALSE,
     active_item |-> NoItem, kind |-> "close_items",
     should_close |-> {}, added |-> {}, late |-> {}]

items_to_close_first_only(its, should_close) ==
    LET all == SelectSeq(its, LAMBDA id : id \in should_close)
    IN  IF all = <<>> THEN all ELSE <<Head(all)>>

\* for item in &self.items { if should_close(item.item_id()) { push } }
items_to_close_of(its, should_close) ==
    SelectSeq(its, LAMBDA id : id \in should_close)

\* The ids of the RemoveItem events of a sequence of events
RemovedIds(evs) ==
    LET rm == SelectSeq(evs, LAMBDA e : e.type = "RemoveItem")
    IN  [k \in 1..Len(rm) |-> rm[k].item_id]

close_step_missing_removes_front(p, item, has_focus) ==
    LET item_ix == position(p.items, item)
    IN  IF item_ix # NoneIx THEN remove_item(p, item_ix, FALSE, has_focus)
        ELSE IF p.items # <<>> THEN remove_item(p, 0, FALSE, has_focus) ELSE p

\* One iteration of the task's loop, on the pane
close_step(p, item, has_focus) ==
    LET item_ix == position(p.items, item)
    IN  IF item_ix # NoneIx THEN remove_item(p, item_ix, FALSE, has_focus) ELSE p

update_in_ignoring_release(st, p, updated) == updated

\* WeakEntity::update_in(...).ok(): the closure runs on a live entity; on a
\* released one the call is an Err that .ok() drops and nothing changes
update_in(st, p, updated) == IF st = "alive" THEN updated ELSE p

\* The statements of remove_item in front of self.items.remove(item_index)
before_remove(p, item_index, activate_pane, has_focus) ==
    LET should_activate == activate_pane \/ has_focus
    IN  IF item_index = p.active_item_index
        THEN IF Len(p.items) = 1 /\ should_activate
             THEN p
             ELSE activate_item(p, index_to_activate(item_index, Len(p.items)),
                                should_activate)
        ELSE p

----------------------------------------------------------------------------
\* The state machine

TaskPending == \E t \in Tasks : tasks[t].pc = "running"

\* The record of a call: the operation, its arguments and the pane before
\* it.  While a close_items task is pending only the steps of the task are
\* recorded: another operation leaves an empty record and an empty log.
Op(op, task, item, index) ==
    IF TaskPending
    THEN [op |-> "other", task |-> NoTask, item |-> NoItem, index |-> NoneIx,
          items |-> <<>>, active_item_index |-> 0]
    ELSE [op |-> op, task |-> task, item |-> item, index |-> index,
          items |-> items, active_item_index |-> active_item_index]

StepOp(op, task, item) ==
    [op |-> op, task |-> task, item |-> item, index |-> NoneIx,
     items |-> <<>>, active_item_index |-> 0]

\* Write the pane back; the entity is alive and stays so
Commit(p) ==
    /\ UNCHANGED nonPaneVars
    /\ status = "alive"
    /\ status' = status
    /\ items' = p.items
    /\ active_item_index' = p.active_item_index
    /\ zoomed' = p.zoomed
    /\ emitted' = IF TaskPending THEN <<>> ELSE p.emitted
    /\ deactivated' = IF TaskPending THEN <<>> ELSE p.deactivated

\* Write the pane back after a step of a task
CommitStep(p) ==
    /\ UNCHANGED nonPaneVars
    /\ status' = status
    /\ items' = p.items
    /\ active_item_index' = p.active_item_index
    /\ zoomed' = p.zoomed
    /\ emitted' = p.emitted
    /\ deactivated' = p.deactivated

\* The tasks after a pane operation that is not a step of task t: it
\* interleaves with every other pending task; a finished task is forgotten.
Interleave(t) ==
    [u \in Tasks |->
        IF u = t THEN tasks[u]
        ELSE IF tasks[u].pc = "running"
        THEN [tasks[u] EXCEPT !.interleaved = TRUE, !.snapshot = <<>>,
                              !.kept = <<>>, !.removed = <<>>]
        ELSE IdleTask]

\* Pane::new
PaneNew ==
    /\ items = <<>>
    /\ active_item_index = 0
    /\ zoomed = FALSE
    /\ emitted = <<>>
    /\ deactivated = <<>>
    /\ tasks = [t \in Tasks |-> IdleTask]
    /\ last = [op |-> "new", task |-> NoTask, item |-> NoItem, index |-> NoneIx,
               items |-> <<>>, active_item_index |-> 0]
    /\ status = "alive"

NoDirection == "None"

NoGesture ==
    [op |-> "new", w |-> 0, h |-> 0, x |-> 0, y |-> 0, ix |-> NoneIx, item |-> NoItem,
     pending |-> NoDirection, flow |-> "None"]

\* Pane::new, the fields of dragging and dropping
DragNew ==
    /\ can_split = TRUE
    /\ custom_drop_handle = FALSE
    /\ drag_split_direction = NoDirection
    /\ workspace = "alive"
    /\ gesture = NoGesture
    /\ deferred = <<>>

PanelIds == 1..NumPanels
NoPanel == 0
NoPosition == "None"

\* A panel of another dock of the workspace
OtherPanel == NumPanels + 1

\* The record of an operation on the dock: the operation, the panel it is
\* about, and what an operation fills in of the state before it
NoDockOp ==
    [op |-> "new", panel |-> NoPanel, panel_ix |-> NoneIx,
     active_panel_index |-> 0, active_panel |-> NoPanel,
     is_open |-> FALSE, starts_open |-> FALSE,
     panel_position |-> NoPosition, ws_zoomed |-> NoPanel,
     ws_zoomed_position |-> NoPosition]

\* Dock::new, panels that are not zoomed and were never set active, and a
\* workspace with nothing zoomed
DockNew ==
    /\ panel_entries = <<>>
    /\ active_panel_index = 0
    /\ is_open = FALSE
    /\ panel_zoomed = [panel \in PanelIds |-> FALSE]
    /\ panel_active = [panel \in PanelIds |-> FALSE]
    /\ ws_zoomed = NoPanel
    /\ ws_zoomed_position = NoPosition
    /\ dock_last = NoDockOp

\* No call of tab_details
ItemHandles == 1..NumHandles

Panes == 1..NumPanes

\* panes_by_item.get(..) is None
NoPane == 0

ItemEvents == {"CloseItem", "UpdateTab", "Edit"}

NoItemOp == [op |-> "new", item |-> 0, pane |-> NoPane, events |-> <<>>, calls |-> <<>>]

\* A workspace that has been told of no item
ItemNew ==
    /\ panes_by_item = [item \in ItemHandles |-> NoPane]
    /\ event_subscription = [item \in ItemHandles |-> 0]
    /\ item_status = [item \in ItemHandles |-> "alive"]
    /\ pane_status = [pane \in Panes |-> "alive"]
    /\ owner = [item \in ItemHandles |-> NoPane]
    /\ added_again = [item \in ItemHandles |-> FALSE]
    /\ item_last = NoItemOp

\* Nothing has been emitted
LogNew == removals = [id \in ItemIds \cup {NoItem} |-> 0]

NoTabDetails ==
    /\ tab_description = <<>>
    /\ tab_details = <<>>
    /\ done = TRUE

Init ==
    /\ PaneNew
    /\ NoTabDetails
    /\ DragNew
    /\ DockNew
    /\ ItemNew
    /\ LogNew

AddItem(item, activate_pane, destination_index) ==
    /\ Commit(add_item(ThePane, item, activate_pane, destination_index))
    /\ tasks' = Interleave(NoTask)
    /\ last' = Op("add_item", NoTask, item, destination_index)

RemoveItem(item_index, activate_pane, has_focus) ==
    /\ item_index < Len(items)
    /\ Commit(remove_item(ThePane, item_index, activate_pane, has_focus))
    /\ tasks' = Interleave(NoTask)
    /\ last' = Op("remove_item", NoTask, At(items, item_index), item_index)

\* remove_item with item_index >= items.len(): Vec::remove panics
\* ("removal index (is i) should be < len"), after the statements in front of it
RemoveItemOutOfRange(item_index, activate_pane, has_focus) ==
    /\ UNCHANGED nonPaneVars
    /\ status = "alive"
    /\ item_index >= Len(items)
    /\ LET p == before_remove(ThePane, item_index, activate_pane, has_focus)
       IN  /\ items' = p.items
           /\ active_item_index' = p.active_item_index
           /\ zoomed' = p.zoomed
           /\ emitted' = p.emitted
           /\ deactivated' = p.deactivated
    /\ status' = "panicked"
    /\ tasks' = Interleave(NoTask)
    /\ last' = Op("remove_item", NoTask, NoItem, item_index)

\* The last handle of the pane is dropped: the entity is released
ReleasePane ==
    /\ UNCHANGED nonPaneVars
    /\ status = "alive"
    /\ status' = "released"
    /\ UNCHANGED <<items, active_item_index, zoomed>>
    /\ emitted' = <<>>
    /\ deactivated' = <<>>
    /\ tasks' = Interleave(NoTask)
    /\ last' = Op("release", NoTask, NoItem, NoneIx)

ActivateItem(index, activate_pane) ==
    /\ Commit(activate_item(ThePane, index, activate_pane))
    /\ tasks' = Interleave(NoTask)
    /\ last' = Op("activate_item", NoTask, NoItem, index)

ActivatePrevItem(activate_pane) ==
    /\ Commit(activate_item(ThePane, prev_item_index(active_item_index, Len(items)),
                            activate_pane))
    /\ tasks' = Interleave(NoTask)
    /\ last' = Op("activate_prev_item", NoTask, NoItem, NoneIx)

ActivateNextItem(activate_pane) ==
    /\ Commit(activate_item(ThePane, next_item_index(active_item_index, Len(items)),
                            activate_pane))
    /\ tasks' = Interleave(NoTask)
    /\ last' = Op("activate_next_item", NoTask, NoItem, NoneIx)

SetZoomed(z) ==
    /\ Commit([ThePane EXCEPT !.zoomed = z])
    /\ tasks' = Interleave(NoTask)
    /\ last' = Op("set_zoomed", NoTask, NoItem, NoneIx)

\* close_items up to the spawn; should_close is the set of ids the predicate accepts
started_task_all(should_close, active_item) ==
    [IdleTask EXCEPT !.pc = "running", !.remaining = items, !.snapshot = items,
                     !.kept = SelectSeq(items, LAMBDA id : id \notin should_close),
                     !.active_item = active_item]

\* The task close_items spawns, with the items it has collected
started_task(should_close, active_item) ==
    [IdleTask EXCEPT !.pc = "running",
                     !.remaining = items_to_close_of(items, should_close),
                     !.snapshot = items,
                     !.kept = SelectSeq(items, LAMBDA id : id \notin should_close),
                     !.active_item = active_item]

CloseItems(t, should_close) ==
    /\ status = "alive"
    /\ tasks[t].pc # "running"
    /\ CommitStep(ThePane)
    /\ tasks' = [Interleave(t) EXCEPT ![t] = started_task(should_close, NoItem)]
    /\ last' = StepOp("close_items", t, NoItem)

\* Pane::close_inactive_items: nothing on an empty pane; indexing the items
\* with an active_item_index that is out of range panics
CloseInactiveItems(t) ==
    /\ status = "alive"
    /\ tasks[t].pc # "running"
    /\ UNCHANGED nonPaneVars
    /\ UNCHANGED <<items, active_item_index, zoomed, emitted, deactivated>>
    /\ last' = StepOp("close_inactive_items", t, NoItem)
    /\ IF items = <<>>
       THEN /\ status' = status
            /\ tasks' = [Interleave(t) EXCEPT ![t] = IdleTask]
       ELSE IF active_item_index >= Len(items)
       THEN /\ status' = "panicked"
            /\ tasks' = Interleave(NoTask)
       ELSE LET active_item_id == At(items, active_item_index)
            IN  /\ status' = status
                /\ tasks' = [Interleave(t) EXCEPT ![t] =
                                [started_task(ItemIds \ {active_item_id},
                                              active_item_id)
                                    EXCEPT !.kind = "close_inactive_items"]]

TaskStep(t, has_focus) ==
    /\ tasks[t].pc = "running"
    /\ tasks[t].remaining # <<>>
    /\ LET item == Head(tasks[t].remaining)
           p == update_in(status, ThePane, close_step(ThePane, item, has_focus))
       IN  /\ CommitStep(p)
           /\ tasks' = [Interleave(t) EXCEPT ![t] =
                           [@ EXCEPT !.remaining = Tail(@),
                                     !.removed = IF tasks[t].interleaved THEN <<>>
                                                 ELSE @ \o RemovedIds(p.emitted),
                                     !.skipped = @ \/ position(items, item) = NoneIx]]
           /\ last' = StepOp("task_step", t, item)

\* pane.update(&mut cx, |_, cx| cx.notify()).ok(); Ok(())
TaskFinish(t) ==
    /\ tasks[t].pc = "running"
    /\ tasks[t].remaining = <<>>
    /\ CommitStep(ThePane)
    /\ tasks' = [Interleave(t) EXCEPT ![t].pc = "done"]
    /\ last' = StepOp("task_finish", t, NoItem)

\* The pane on its own
Next ==
    \/ \E item \in ItemIds, activate_pane \in BOOLEAN,
          destination_index \in {NoneIx} \cup (0..NumItems) :
            AddItem(item, activate_pane, destination_index)
    \/ \E item_index \in 0..(NumItems - 1), activate_pane \in BOOLEAN, has_focus \in BOOLEAN :
            RemoveItem(item_index, activate_pane, has_focus)
    \/ \E index \in 0..NumItems, activate_pane \in BOOLEAN :
            ActivateItem(index, activate_pane)
    \/ \E activate_pane \in BOOLEAN : ActivatePrevItem(activate_pane)
    \/ \E activate_pane \in BOOLEAN : ActivateNextItem(activate_pane)
    \/ \E z \in BOOLEAN : SetZoomed(z)
    \/ \E item_index \in 0..NumItems, activate_pane \in BOOLEAN, has_focus \in BOOLEAN :
            RemoveItemOutOfRange(item_index, activate_pane, has_focus)

Spec == Init /\ [][Next]_vars

\* The pane with one close_items task at a time and the operations that
\* can run between its steps
CloseNext ==
    \/ \E item \in ItemIds, activate_pane \in BOOLEAN,
          destination_index \in {NoneIx} \cup (0..NumItems) :
            AddItem(item, activate_pane, destination_index)
    \/ \E item_index \in 0..(NumItems - 1), activate_pane \in BOOLEAN, has_focus \in BOOLEAN :
            RemoveItem(item_index, activate_pane, has_focus)
    \/ \E index \in 0..NumItems, activate_pane \in BOOLEAN :
            ActivateItem(index, activate_pane)
    \/ \E activate_pane \in BOOLEAN : ActivatePrevItem(activate_pane)
    \/ \E activate_pane \in BOOLEAN : ActivateNextItem(activate_pane)
    \/ \E should_close \in SUBSET ItemIds : CloseItems(1, should_close)
    \/ CloseInactiveItems(1)
    \/ \E has_focus \in BOOLEAN : TaskStep(1, has_focus)
    \/ TaskFinish(1)
    \/ ReleasePane

CloseSpec == Init /\ [][CloseNext]_vars


----------------------------------------------------------------------------
\* tab_details

Descriptions == {"a", "b"}
NoDescription == "None"

\* item.tab_description(detail, cx) of the item at ix
description(table, ix, detail) == At(At(table, ix), Min(detail, MaxLevel))

counted_any(table, details, ix) ==
    description(table, ix, At(details, ix)) # NoDescription

\* The item at ix is pushed into the map tab_descriptions in this round
counted(table, details, ix) ==
    LET detail == At(details, ix)
        d == description(table, ix, detail)
    IN  /\ d # NoDescription
        /\ (detail = 0 \/ d # description(table, ix, detail - 1))

\* tab_descriptions[d] after the first loop of a round
item_ixs(table, details, d) ==
    {ix \in 0..(Len(details) - 1) :
        counted(table, details, ix) /\ description(table, ix, At(details, ix)) = d}

colliding_none(table, details) == {}

\* The indices in the entries with item_ixs.len() > 1
colliding(table, details) ==
    {ix \in 0..(Len(details) - 1) :
        /\ counted(table, details, ix)
        /\ Cardinality(item_ixs(table, details,
                                description(table, ix, At(details, ix)))) > 1}

bump_nothing(details, ixs) == details

\* for ix in item_ixs { tab_details[ix] += 1 }
bump(details, ixs) ==
    [k \in 1..Len(details) |-> IF (k - 1) \in ixs THEN details[k] + 1 ELSE details[k]]

\* Every item list of up to NumTabs items with its descriptions; the state
\* at the first test of while !done
TabInit ==
    /\ PaneNew
    /\ DragNew
    /\ DockNew
    /\ ItemNew
    /\ LogNew
    /\ \E n \in 0..NumTabs :
          /\ tab_description \in
                [1..n -> [1..(MaxLevel + 1) -> Descriptions \cup {NoDescription}]]
          /\ tab_details = [k \in 1..n |-> 0]
    /\ done = FALSE

\* One iteration of while !done
TabDetailsRound ==
    /\ ~done
    /\ LET ixs == colliding(tab_description, tab_details)
       IN  /\ tab_details' = bump(tab_details, ixs)
           /\ done' = (ixs = {})
    /\ UNCHANGED <<tab_description, nonTabVars>>

TabNext == TabDetailsRound

TabSpec == TabInit /\ [][TabNext]_vars

\* The loop runs on: nothing in it waits
TabFairSpec == TabSpec /\ WF_vars(TabDetailsRound)

----------------------------------------------------------------------------
\* Dragging over the pane: handle_drag_move.  Lengths are whole pixels.

Margin == 33        \* size = min(width, height) * 0.33, in percent

\* The array of handle_drag_move, in its order
Directions == <<"Up", "Right", "Down", "Left">>

side_key_right_is_x(side, w, h, x, y) ==
    CASE side = "Up" -> y
      [] side = "Right" -> x
      [] side = "Down" -> h - y
      [] side = "Left" -> x

\* The key of min_by_key
side_key(side, w, h, x, y) ==
    CASE side = "Up" -> y
      [] side = "Right" -> w - x
      [] side = "Down" -> h - y
      [] side = "Left" -> x

\* Iterator::min_by_key: the first of the sides with the least key
min_by_key(w, h, x, y) ==
    LET key(k) == side_key(Directions[k], w, h, x, y)
        first == CHOOSE k \in 1..4 :
                    /\ \A j \in 1..4 : key(k) <= key(j)
                    /\ \A j \in 1..(k - 1) : key(j) > key(k)
    IN  Directions[first]

\* relative_cursor.x < size || relative_cursor.x > rect.width - size || ...,
\* both sides of each comparison times 100
in_margin(w, h, x, y) ==
    LET size100 == Min(w, h) * Margin
    IN  \/ x * 100 < size100
        \/ x * 100 > w * 100 - size100
        \/ y * 100 < size100
        \/ y * 100 > h * 100 - size100

\* The field after handle_drag_move
handle_drag_move(direction, can, w, h, x, y) ==
    IF ~can THEN direction
    ELSE IF in_margin(w, h, x, y) THEN min_by_key(w, h, x, y) ELSE NoDirection

\* The widths and heights of the bounds, and the cursor positions on one
\* axis of bounds of that length when the other side is other: the near
\* edge, the far edge of each margin and the pixel beside it
Sides == {100 * k : k \in 1..MaxSide}
Positions(side, other) ==
    LET size == (Min(side, other) * Margin) \div 100
    IN  {0, size - 1, size, side - size, side - size + 1}

----------------------------------------------------------------------------
\* Dropping a tab: handle_tab_drop and the three on_drop listeners

\* cx.entity(): the pane the tab is dropped on
ThisPane == [pane |-> "to_pane", split |-> NoDirection]

\* dragged_tab.pane
FromPane == [pane |-> "from_pane", split |-> NoDirection]

Call(call, from, to, direction, item_id, ix) ==
    [call |-> call, from |-> from, to |-> to, direction |-> direction,
     item_id |-> item_id, ix |-> ix]

\* Workspace::split_pane(pane, direction): the pane it returns
split_pane(pane, direction) == [pane EXCEPT !.split = direction]

deferred_calls_no_split(to_pane, split_direction, from_pane, item_id, ix) ==
    <<Call("move_item", from_pane, to_pane, NoDirection, item_id, ix)>>

\* The closure handed to cx.defer_in
deferred_calls(to_pane, split_direction, from_pane, item_id, ix) ==
    IF split_direction # NoDirection
    THEN <<Call("split_pane", to_pane, to_pane, split_direction, NoItem, NoneIx),
           Call("move_item", from_pane, split_pane(to_pane, split_direction),
                NoDirection, item_id, ix)>>
    ELSE <<Call("move_item", from_pane, to_pane, NoDirection, item_id, ix)>>

handle_tab_drop_ignoring_break(handle, flow, ws, split_direction, item_id, ix) ==
    IF ws # "alive" THEN <<>>
    ELSE deferred_calls(ThisPane, split_direction, FromPane, item_id, ix)

\* handle_tab_drop: the calls it defers.  flow is what the custom handler
\* returns; self.workspace.update(..) fails on a released workspace and
\* log_err drops the error
handle_tab_drop(handle, flow, ws, split_direction, item_id, ix) ==
    IF handle /\ flow = "Break" THEN <<>>
    ELSE IF ws # "alive" THEN <<>>
    ELSE deferred_calls(ThisPane, split_direction, FromPane, item_id, ix)

Flows == {"Break", "Continue"}

\* A pane that holds 0..NumItems items, one of them active
DropInit ==
    /\ \E n \in 0..NumItems :
          /\ items = [k \in 1..n |-> k]
          /\ active_item_index \in {i \in 0..NumItems : i = 0 \/ i < n}
    /\ zoomed = FALSE
    /\ emitted = <<>>
    /\ deactivated = <<>>
    /\ tasks = [t \in Tasks |-> IdleTask]
    /\ last = [op |-> "new", task |-> NoTask, item |-> NoItem, index |-> NoneIx,
               items |-> <<>>, active_item_index |-> 0]
    /\ status = "alive"
    /\ NoTabDetails
    /\ DragNew
    /\ DockNew
    /\ ItemNew
    /\ LogNew

SetCanSplit(can) ==
    /\ can_split' = can
    /\ gesture' = [NoGesture EXCEPT !.op = "set_can_split"]
    /\ deferred' = <<>>
    /\ UNCHANGED <<custom_drop_handle, drag_split_direction, workspace, nonDragVars>>

SetCustomDropHandle ==
    /\ custom_drop_handle' = TRUE
    /\ gesture' = [NoGesture EXCEPT !.op = "set_custom_drop_handle"]
    /\ deferred' = <<>>
    /\ UNCHANGED <<can_split, drag_split_direction, workspace, nonDragVars>>

\* The last handle of the workspace is dropped
ReleaseWorkspace ==
    /\ workspace = "alive"
    /\ workspace' = "released"
    /\ gesture' = [NoGesture EXCEPT !.op = "release_workspace"]
    /\ deferred' = <<>>
    /\ UNCHANGED <<can_split, custom_drop_handle, drag_split_direction, nonDragVars>>

HandleDragMove(w, h, x, y) ==
    /\ drag_split_direction' = handle_drag_move(drag_split_direction, can_split, w, h, x, y)
    /\ gesture' = [NoGesture EXCEPT !.op = "handle_drag_move",
                                    !.w = w, !.h = h, !.x = x, !.y = y]
    /\ deferred' = <<>>
    /\ UNCHANGED <<can_split, custom_drop_handle, workspace, nonDragVars>>

\* The body of an on_drop listener: reset says whether it clears
\* drag_split_direction before it calls handle_tab_drop
OnDrop(op, reset, item_id, ix, flow) ==
    LET pending == IF reset THEN NoDirection ELSE drag_split_direction
    IN  /\ drag_split_direction' = pending
        /\ deferred' = handle_tab_drop(custom_drop_handle, flow, workspace,
                                       pending, item_id, ix)
        /\ gesture' = [NoGesture EXCEPT !.op = op, !.ix = ix, !.item = item_id,
                                        !.pending = pending,
                                        !.flow = IF custom_drop_handle THEN flow
                                                 ELSE "None"]
        /\ UNCHANGED <<can_split, custom_drop_handle, workspace, nonDragVars>>

\* on_drop of the tab at ix
DropOnTab(ix, item_id, flow) ==
    /\ ix < Len(items)
    /\ OnDrop("drop_on_tab", TRUE, item_id, ix, flow)

\* on_drop of the empty part of the tab bar
DropOnTabBar(item_id, flow) ==
    OnDrop("drop_on_tab_bar", TRUE, item_id, Len(items), flow)

\* on_drop of the drag target over the content
DropOnContent(item_id, flow) ==
    OnDrop("drop_on_content", FALSE, item_id, active_item_index, flow)

DropNext ==
    \/ \E can \in BOOLEAN : SetCanSplit(can)
    \/ SetCustomDropHandle
    \/ ReleaseWorkspace
    \/ \E w \in Sides, h \in Sides :
          \E x \in Positions(w, h), y \in Positions(h, w) : HandleDragMove(w, h, x, y)
    \/ \E ix \in 0..(NumItems - 1), item_id \in ItemIds, flow \in Flows :
          DropOnTab(ix, item_id, flow)
    \/ \E item_id \in ItemIds, flow \in Flows : DropOnTabBar(item_id, flow)
    \/ \E item_id \in ItemIds, flow \in Flows : DropOnContent(item_id, flow)

DropSpec == DropInit /\ [][DropNext]_vars

\* A pane that holds items, its close_items tasks and the release of the pane
ReleaseNext ==
    \/ \E should_close \in SUBSET ItemIds : CloseItems(1, should_close)
    \/ \E has_focus \in BOOLEAN : TaskStep(1, has_focus)
    \/ TaskFinish(1)
    \/ ReleasePane

ReleaseSpec == DropInit /\ [][ReleaseNext]_vars

\* The executor polls a spawned task until it returns: the loop of
\* close_items has no await that can stay pending
ReleaseFairSpec ==
    /\ ReleaseSpec
    /\ WF_vars((\E has_focus \in BOOLEAN : TaskStep(1, has_focus)) \/ TaskFinish(1))

----------------------------------------------------------------------------
\* Dock

DockPositions == {"Left", "Bottom", "Right"}

\* Dock::position of the dock of the model
ThePosition == "Left"

TheDock ==
    [panel_entries |-> panel_entries, active_panel_index |-> active_panel_index,
     is_open |-> is_open, panel_zoomed |-> panel_zoomed, panel_active |-> panel_active]

\* entry.panel.set_active(active, window, cx)
set_active(d, panel, active) == [d EXCEPT !.panel_active[panel] = active]

\* Dock::set_open
set_open(d, open) ==
    IF open # d.is_open
    THEN LET d1 == [d EXCEPT !.is_open = open]
         IN  IF d1.active_panel_index < Len(d1.panel_entries)
             THEN set_active(d1, At(d1.panel_entries, d1.active_panel_index), open)
             ELSE d1
    ELSE d

activate_panel_nothing(d, panel_ix) == d

\* Dock::activate_panel
activate_panel(d, panel_ix) ==
    IF panel_ix # d.active_panel_index
    THEN LET d1 == IF d.active_panel_index < Len(d.panel_entries)
                   THEN set_active(d, At(d.panel_entries, d.active_panel_index), FALSE)
                   ELSE d
             d2 == [d1 EXCEPT !.active_panel_index = panel_ix]
         IN  IF panel_ix < Len(d2.panel_entries)
             THEN set_active(d2, At(d2.panel_entries, panel_ix), TRUE)
             ELSE d2
    ELSE d

set_panel_zoomed_one(d, panel, zoom) ==
    [d EXCEPT !.panel_zoomed[panel] = zoom]

\* Dock::set_panel_zoomed: every entry of the panel gets the flag, every
\* other entry is zoomed out
set_panel_zoomed(d, panel, zoom) ==
    [d EXCEPT !.panel_zoomed =
        [q \in PanelIds |->
            IF q \in SeqToSet(d.panel_entries)
            THEN (IF q = panel THEN zoom ELSE FALSE)
            ELSE d.panel_zoomed[q]]]

visible_panel_first(d) ==
    IF d.is_open /\ d.panel_entries # <<>> THEN At(d.panel_entries, 0) ELSE NoPanel

\* Dock::visible_panel
visible_panel(d) ==
    IF d.is_open /\ d.active_panel_index < Len(d.panel_entries)
    THEN At(d.panel_entries, d.active_panel_index)
    ELSE NoPanel

add_panel_opens_only(d, panel, starts_open) ==
    LET d1 == [d EXCEPT !.panel_entries = Append(@, panel)]
    IN  IF starts_open THEN set_open(d1, TRUE) ELSE d1

\* Dock::add_panel, after the subscriptions
add_panel(d, panel, starts_open) ==
    LET d1 == [d EXCEPT !.panel_entries = Append(@, panel)]
    IN  IF starts_open
        THEN set_open(activate_panel(d1, Len(d1.panel_entries) - 1), TRUE)
        ELSE d1

active_after_remove_panel_keep(panel_ix, active) ==
    IF panel_ix = active THEN 0 ELSE active

\* The index remove_panel leaves in active_panel_index
active_after_remove_panel(panel_ix, active) ==
    IF panel_ix = active THEN 0
    ELSE IF panel_ix < active THEN active - 1
    ELSE active

remove_panel_stays_open(d, panel) ==
    LET panel_ix == position(d.panel_entries, panel)
    IN  IF panel_ix # NoneIx
        THEN [d EXCEPT !.active_panel_index =
                            active_after_remove_panel(panel_ix, d.active_panel_index),
                       !.panel_entries = RemoveAt(@, panel_ix)]
        ELSE d

\* Dock::remove_panel
remove_panel(d, panel) ==
    LET panel_ix == position(d.panel_entries, panel)
    IN  IF panel_ix # NoneIx
        THEN LET d1 == [d EXCEPT !.active_panel_index =
                            active_after_remove_panel(panel_ix, d.active_panel_index)]
                 d2 == IF panel_ix = d.active_panel_index THEN set_open(d1, FALSE) ELSE d1
             IN  [d2 EXCEPT !.panel_entries = RemoveAt(@, panel_ix)]
        ELSE d

TheZoomRecord == [zoomed |-> ws_zoomed, zoomed_position |-> ws_zoomed_position]

zoom_out_record_always(ws, w, dock_position) ==
    [zoomed |-> NoPanel, zoomed_position |-> NoPosition]

\* The closure the ZoomOut handler hands to workspace.update(..).ok(): the
\* zoom record w of the workspace after it
zoom_out_record(ws, w, dock_position) ==
    IF ws = "alive" /\ w.zoomed_position = dock_position
    THEN [zoomed |-> NoPanel, zoomed_position |-> NoPosition]
    ELSE w

\* Write the dock back
CommitDock(d) ==
    /\ panel_entries' = d.panel_entries
    /\ active_panel_index' = d.active_panel_index
    /\ is_open' = d.is_open
    /\ panel_zoomed' = d.panel_zoomed
    /\ panel_active' = d.panel_active
    /\ UNCHANGED <<paneVars, tabVars, can_split, custom_drop_handle,
                   drag_split_direction, workspace, gesture, deferred, itemVars,
                   logVars>>

\* The record of a call on the dock or of an event of a panel that is
\* about the open flag and the active index
DockOp(op, panel) ==
    [NoDockOp EXCEPT !.op = op, !.panel = panel,
                     !.panel_ix = position(panel_entries, panel),
                     !.active_panel_index = active_panel_index,
                     !.active_panel = IF active_panel_index < Len(panel_entries)
                                      THEN At(panel_entries, active_panel_index)
                                      ELSE NoPanel,
                     !.is_open = is_open]

\* The record of a zoom event: the zoom record of the workspace before it
ZoomOp(op, panel, panel_position) ==
    [NoDockOp EXCEPT !.op = op, !.panel = panel,
                     !.panel_position = panel_position,
                     !.ws_zoomed = ws_zoomed,
                     !.ws_zoomed_position = ws_zoomed_position]

AddPanel(panel, starts_open) ==
    /\ Len(panel_entries) < NumPanels
    /\ CommitDock(add_panel(TheDock, panel, starts_open))
    /\ dock_last' = [DockOp("add_panel", panel) EXCEPT !.starts_open = starts_open]
    /\ UNCHANGED <<ws_zoomed, ws_zoomed_position>>

RemovePanel(panel) ==
    /\ CommitDock(remove_panel(TheDock, panel))
    /\ dock_last' = DockOp("remove_panel", panel)
    /\ UNCHANGED <<ws_zoomed, ws_zoomed_position>>

\* PanelEvent::ZoomIn from a panel of the dock; panel_position is what
\* Panel::position returns
ZoomIn(panel, panel_position) ==
    /\ panel \in SeqToSet(panel_entries)
    /\ CommitDock(set_panel_zoomed(TheDock, panel, TRUE))
    /\ IF workspace = "alive"
       THEN /\ ws_zoomed' = panel
            /\ ws_zoomed_position' = panel_position
       ELSE UNCHANGED <<ws_zoomed, ws_zoomed_position>>
    /\ dock_last' = ZoomOp("ZoomIn", panel, panel_position)

\* PanelEvent::ZoomOut from a panel of the dock
ZoomOut(panel) ==
    /\ panel \in SeqToSet(panel_entries)
    /\ CommitDock(set_panel_zoomed(TheDock, panel, FALSE))
    /\ LET w == zoom_out_record(workspace, TheZoomRecord, ThePosition)
       IN  /\ ws_zoomed' = w.zoomed
           /\ ws_zoomed_position' = w.zoomed_position
    /\ dock_last' = ZoomOp("ZoomOut", panel, NoPosition)

\* PanelEvent::Activate from a panel of the dock
Activate(panel) ==
    /\ panel \in SeqToSet(panel_entries)
    /\ CommitDock(activate_panel(set_open(TheDock, TRUE),
                                 position(panel_entries, panel)))
    /\ dock_last' = DockOp("Activate", panel)
    /\ UNCHANGED <<ws_zoomed, ws_zoomed_position>>

\* PanelEvent::Close from a panel of the dock
Close(panel) ==
    /\ panel \in SeqToSet(panel_entries)
    /\ CommitDock(IF visible_panel(TheDock) = panel
                  THEN set_open(TheDock, FALSE) ELSE TheDock)
    /\ dock_last' = DockOp("Close", panel)
    /\ UNCHANGED <<ws_zoomed, ws_zoomed_position>>

\* Dock::activate_panel called from outside the dock, with any index
ActivatePanel(panel_ix) ==
    /\ CommitDock(activate_panel(TheDock, panel_ix))
    /\ dock_last' = [DockOp("activate_panel", NoPanel) EXCEPT !.panel_ix = panel_ix]
    /\ UNCHANGED <<ws_zoomed, ws_zoomed_position>>

\* The ZoomIn handler of another dock of the workspace, for one of its
\* panels: the zoom record of the workspace is shared
OtherDockZoomIn(panel_position) ==
    /\ workspace = "alive"
    /\ ws_zoomed' = OtherPanel
    /\ ws_zoomed_position' = panel_position
    /\ dock_last' = [NoDockOp EXCEPT !.op = "other_dock"]
    /\ UNCHANGED <<panel_entries, active_panel_index, is_open, panel_zoomed,
                   panel_active, nonDockVars>>

DockNext ==
    \/ \E panel \in PanelIds, starts_open \in BOOLEAN : AddPanel(panel, starts_open)
    \/ \E panel \in PanelIds : RemovePanel(panel)
    \/ \E panel \in PanelIds, panel_position \in DockPositions :
          ZoomIn(panel, panel_position)
    \/ \E panel \in PanelIds : ZoomOut(panel)
    \/ \E panel \in PanelIds : Activate(panel)
    \/ \E panel \in PanelIds : Close(panel)
    \/ \E panel_position \in DockPositions \ {ThePosition} :
          OtherDockZoomIn(panel_position)

DockSpec == Init /\ [][DockNext]_vars

\* The open flag and the active index of the dock, with calls of
\* activate_panel from outside and without the zoom events
DockApiNext ==
    \/ \E panel \in PanelIds, starts_open \in BOOLEAN : AddPanel(panel, starts_open)
    \/ \E panel \in PanelIds : RemovePanel(panel)
    \/ \E panel \in PanelIds : Activate(panel)
    \/ \E panel \in PanelIds : Close(panel)
    \/ \E panel_ix \in 0..NumPanels : ActivatePanel(panel_ix)

DockApiSpec == Init /\ [][DockApiNext]_vars

----------------------------------------------------------------------------
\* Helpers of the properties

Count(evs, type) == Len(SelectSeq(evs, LAMBDA e : e.type = type))

\* The 1-based places of the events of a type in a log
Places(evs, type) == {k \in 1..Len(evs) : evs[k].type = type}

Occurrences(s, x) == Cardinality({k \in 1..Len(s) : s[k] = x})

\* The last call was add_item / remove_item, recorded with the pane before it
AddedItem == last.op = "add_item"
RemovedItem == last.op = "remove_item" /\ last.index < Len(last.items)
WasPresent == position(last.items, last.item) # NoneIx
WasActive ==
    last.active_item_index < Len(last.items)
    /\ At(last.items, last.active_item_index) = last.item

----------------------------------------------------------------------------
\* C1: after every pane operation, the steps of a close_items task
\* included, the item list is empty or the active index is a valid index.
ActiveIndexInRange ==
    items = <<>> \/ (0 <= active_item_index /\ active_item_index < Len(items))

\* A step of a task removed an inactive item and the active item is the
\* last one of the list.
ActiveIndexInRangeWitness ==
    /\ last.op = "task_step"
    /\ Count(emitted, "RemoveItem") = 1
    /\ Count(emitted, "ActivateItem") = 0
    /\ Len(items) = 2
    /\ active_item_index = 1

\* C2: no two entries of the item list have the same item id, and add_item
\* of an item that is in the pane relocates it: the length is unchanged.
UniqueItemIds ==
    /\ \A i, j \in 1..Len(items) : i # j => items[i] # items[j]
    /\ (AddedItem /\ WasPresent) =>
            /\ Len(items) = Len(last.items)
            /\ Occurrences(items, last.item) = 1

\* add_item moved an item of the pane to another place.
UniqueItemIdsWitness ==
    /\ AddedItem /\ WasPresent
    /\ Len(items) = 3
    /\ position(items, last.item) # position(last.items, last.item)

\* C3 as stated: add_item of an item of the pane with its own index as the
\* destination changes neither the list nor the active index and emits nothing.
AddAtOwnIndexIsNoOp ==
    (AddedItem /\ last.index # NoneIx /\ position(last.items, last.item) = last.index) =>
        /\ items = last.items
        /\ active_item_index = last.active_item_index
        /\ emitted = <<>>

\* C3 amended: add_item of an item of the pane with its own index as the
\* destination leaves the item list unchanged, makes that index the active
\* one and emits ActivateItem followed by AddItem for the item.
AddAtOwnIndexActivates ==
    (AddedItem /\ last.index # NoneIx /\ position(last.items, last.item) = last.index) =>
        /\ items = last.items
        /\ active_item_index = last.index
        /\ Len(emitted) = 2
        /\ emitted[1].type = "ActivateItem"
        /\ emitted[2] = EvAddItem(last.item)

\* add_item of an inactive item of the pane with its own index as the destination.
AddAtOwnIndexWitness ==
    /\ AddedItem /\ last.index # NoneIx
    /\ position(last.items, last.item) = last.index
    /\ last.active_item_index # last.index
    /\ Len(items) = 3

\* C4: add_item without a destination, of an item that is not the active
\* one, puts the item right after the item that was active (index 0 in an
\* empty pane).
AddedAfterActive ==
    (AddedItem /\ last.index = NoneIx /\ ~WasActive) =>
        IF last.items = <<>>
        THEN position(items, last.item) = 0
        ELSE position(items, last.item) =
                position(items, At(last.items, last.active_item_index)) + 1

\* C5: after add_item the added item is the active item.
AddedItemIsActive ==
    AddedItem =>
        /\ active_item_index < Len(items)
        /\ At(items, active_item_index) = last.item

\* add_item with a destination moved an item from before the active one.
AddedItemIsActiveWitness ==
    /\ AddedItem /\ WasPresent
    /\ last.index # NoneIx
    /\ position(last.items, last.item) < last.active_item_index
    /\ position(items, last.item) > position(last.items, last.item)

\* C6: remove_item of the active item at index i > 0 makes the item that
\* was at i - 1 the active one and emits RemoveItem with the removed id;
\* at index 0 of at least two items it makes the item that was at 1 active.
RemoveActiveActivatesNeighbor ==
    (RemovedItem /\ last.index = last.active_item_index) =>
        /\ last.index > 0 =>
              /\ active_item_index < Len(items)
              /\ At(items, active_item_index) = At(last.items, last.index - 1)
              /\ Occurrences(emitted, EvRemoveItem(last.item)) = 1
        /\ (last.index = 0 /\ Len(last.items) >= 2) =>
              /\ active_item_index < Len(items)
              /\ At(items, active_item_index) = At(last.items, 1)

\* [A, B, C] with B active, remove_item(1).
RemoveActiveActivatesNeighborWitness ==
    /\ RemovedItem
    /\ Len(last.items) = 3
    /\ last.index = 1
    /\ last.active_item_index = 1
    /\ active_item_index = 0

\* C7: a remove_item that empties the list emits Remove exactly once, after
\* RemoveItem for the removed item and before any ZoomOut; a remove_item
\* that leaves items emits no Remove.
RemoveEventWhenEmptied ==
    RemovedItem =>
        IF items = <<>>
        THEN /\ Count(emitted, "Remove") = 1
             /\ \E r \in Places(emitted, "Remove") :
                    /\ \E k \in 1..(r - 1) : emitted[k] = EvRemoveItem(last.item)
                    /\ \A z \in Places(emitted, "ZoomOut") : r < z
        ELSE Count(emitted, "Remove") = 0

\* remove_item emptied a zoomed pane.
RemoveEventWhenEmptiedWitness ==
    /\ RemovedItem
    /\ items = <<>>
    /\ Count(emitted, "ZoomOut") = 1

\* C8: remove_item emits ZoomOut exactly once when it removes the last item
\* of a zoomed pane, and never otherwise.
ZoomOutWhenEmptiedZoomed ==
    RemovedItem =>
        Count(emitted, "ZoomOut") = IF items = <<>> /\ zoomed THEN 1 ELSE 0

\* remove_item emptied a zoomed pane, and the flag had been set by set_zoomed.
ZoomOutWhenEmptiedZoomedWitness ==
    /\ RemovedItem
    /\ items = <<>>
    /\ zoomed
    /\ emitted[Len(emitted)] = EvZoomOut

\* C9: when a close_items task has finished and nothing interleaved, the
\* pane holds exactly the items that did not match when close_items was
\* called, in their order, and the steps emitted RemoveItem exactly once
\* for every closed item.
CloseItemsRemovesMatching ==
    \A t \in Tasks :
        (tasks[t].pc = "done" /\ ~tasks[t].interleaved) =>
            /\ items = tasks[t].kept
            /\ \A id \in ItemIds :
                  Occurrences(tasks[t].removed, id) =
                      IF id \in SeqToSet(tasks[t].snapshot)
                         /\ id \notin SeqToSet(tasks[t].kept)
                      THEN 1 ELSE 0

\* A task closed the middle one of three items.
CloseItemsRemovesMatchingWitness ==
    \E t \in Tasks :
        /\ tasks[t].pc = "done" /\ ~tasks[t].interleaved
        /\ Len(tasks[t].snapshot) = 3
        /\ Len(tasks[t].kept) = 2
        /\ tasks[t].kept[1] = tasks[t].snapshot[1]

\* C10: a step of a task whose item is no longer in the pane changes
\* nothing and the task goes on; a later step whose item is in the pane
\* removes it.
MissingItemIsSkipped ==
    [][\A t \in Tasks :
        (last'.op = "task_step" /\ last'.task = t) =>
            /\ position(items, last'.item) = NoneIx =>
                  /\ items' = items
                  /\ active_item_index' = active_item_index
                  /\ zoomed' = zoomed
                  /\ emitted' = <<>>
                  /\ deactivated' = <<>>
                  /\ tasks'[t].pc = "running"
                  /\ tasks'[t].remaining = Tail(tasks[t].remaining)
            /\ (status = "alive" /\ tasks[t].skipped
                /\ position(items, last'.item) # NoneIx) =>
                  /\ position(items', last'.item) = NoneIx
                  /\ Len(items') = Len(items) - 1
                  /\ Count(emitted', "RemoveItem") = 1]_vars

\* After a step that found its item gone, a step removed its item.
MissingItemIsSkippedWitness ==
    /\ last.op = "task_step"
    /\ status = "alive"
    /\ tasks[last.task].skipped
    /\ Count(emitted, "RemoveItem") = 1
    /\ items # <<>>

\* C11: once the pane is released while a close_items task is between two
\* steps, every later step of the task changes nothing and emits nothing,
\* the task goes on to its next item, and the task ends with Ok.
ReleasedPaneStepsAreNoOps ==
    /\ [][\A t \in Tasks :
            (status = "released" /\ tasks[t].pc = "running") =>
                /\ items' = items
                /\ active_item_index' = active_item_index
                /\ zoomed' = zoomed
                /\ emitted' = <<>>
                /\ deactivated' = <<>>
                /\ status' = "released"
                /\ \/ /\ tasks[t].remaining # <<>>
                      /\ tasks'[t].pc = "running"
                      /\ tasks'[t].remaining = Tail(tasks[t].remaining)
                   \/ /\ tasks[t].remaining = <<>>
                      /\ tasks'[t].pc = "done"]_vars
    /\ (status = "released" /\ tasks[1].pc = "running") ~> (tasks[1].pc = "done")

\* A step of a task ran on a released pane whose list still holds the item
\* of the step, and the task has more items to go.
ReleasedPaneStepsAreNoOpsWitness ==
    /\ status = "released"
    /\ last.op = "task_step"
    /\ position(items, last.item) # NoneIx
    /\ tasks[last.task].pc = "running"
    /\ tasks[last.task].remaining # <<>>

\* C12: remove_item with item_index >= items.len() does not fail and leaves
\* the item list and the active index as they were.
RemoveOutOfRangeIsNoOp ==
    (last.op = "remove_item" /\ last.index >= Len(last.items)) =>
        /\ status = "alive"
        /\ items = last.items
        /\ active_item_index = last.active_item_index

\* C13: activate_item(i) with i a valid index other than the active one
\* calls the deactivated hook of the previously active item exactly once,
\* makes i the active index and emits exactly one ActivateItem;
\* activate_item(i) with i >= items.len() changes nothing and emits nothing.
ActivateItemSwitches ==
    last.op = "activate_item" =>
        /\ (last.index < Len(last.items) /\ last.index # last.active_item_index) =>
              /\ deactivated = <<At(last.items, last.active_item_index)>>
              /\ active_item_index = last.index
              /\ Count(emitted, "ActivateItem") = 1
              /\ Len(emitted) = 1
              /\ items = last.items
        /\ last.index >= Len(last.items) =>
              /\ items = last.items
              /\ active_item_index = last.active_item_index
              /\ emitted = <<>>
              /\ deactivated = <<>>

\* activate_item moved the activation from the last of three items to the first.
ActivateItemSwitchesWitness ==
    /\ last.op = "activate_item"
    /\ Len(last.items) = 3
    /\ last.active_item_index = 2
    /\ last.index = 0
    /\ active_item_index = 0

\* activate_item was called with an index past the end of a non-empty list.
ActivateItemOutOfRangeWitness ==
    /\ last.op = "activate_item"
    /\ last.items # <<>>
    /\ last.index >= Len(last.items)

\* C14: add_item of an item that is not in the pane makes the list one
\* longer and emits exactly one AddItem, for that item; on an empty pane
\* with no destination index the list becomes <<item>> and the active
\* index 0.
AddNewItemGrowsByOne ==
    (AddedItem /\ ~WasPresent) =>
        /\ Len(items) = Len(last.items) + 1
        /\ Count(emitted, "AddItem") = 1
        /\ \A k \in Places(emitted, "AddItem") : emitted[k] = EvAddItem(last.item)
        /\ (last.items = <<>> /\ last.index = NoneIx) =>
              /\ items = <<last.item>>
              /\ active_item_index = 0

\* A new item was added in the middle of a pane of two items.
AddNewItemGrowsByOneWitness ==
    /\ AddedItem /\ ~WasPresent
    /\ Len(last.items) = 2
    /\ Len(items) = 3
    /\ At(items, 1) = last.item

\* A new item was added to an empty pane with no destination index.
AddNewItemToEmptyWitness ==
    /\ AddedItem /\ ~WasPresent
    /\ last.items = <<>>
    /\ last.index = NoneIx
    /\ items = <<last.item>>

\* The description of the item at ix at the level tab_details gives it
final_description(ix) == description(tab_description, ix, At(tab_details, ix))

\* C15 as stated: when tab_details has returned, any two different items
\* that have descriptions at their levels have different descriptions.
TabDescriptionsDistinct ==
    done =>
        \A i, j \in 0..(Len(tab_details) - 1) :
            (i # j /\ final_description(i) # NoDescription
                   /\ final_description(j) # NoDescription) =>
                final_description(i) # final_description(j)

\* The level of the item at ix is above 0 and its description is the one of
\* the level below
description_settled(ix) ==
    /\ At(tab_details, ix) > 0
    /\ final_description(ix) =
          description(tab_description, ix, At(tab_details, ix) - 1)

\* C15, amended: when tab_details has returned, two different items that
\* have descriptions at their levels have different descriptions unless
\* the description of one of them no longer changed with its last level.
TabDescriptionsDistinctUnlessSettled ==
    done =>
        \A i, j \in 0..(Len(tab_details) - 1) :
            (i # j /\ final_description(i) # NoDescription
                   /\ final_description(j) # NoDescription
                   /\ ~description_settled(i) /\ ~description_settled(j)) =>
                final_description(i) # final_description(j)

\* Two items with the same description at level 0 were told apart at level 1.
TabDescriptionsDistinctWitness ==
    /\ done
    /\ Len(tab_details) >= 2
    /\ description(tab_description, 0, 0) = description(tab_description, 1, 0)
    /\ At(tab_details, 0) = 1 /\ At(tab_details, 1) = 1
    /\ final_description(0) # NoDescription
    /\ final_description(1) # NoDescription
    /\ final_description(0) # final_description(1)

\* C16: tab_details returns for every item list whose descriptions are
\* constant from some level on.
TabDetailsTerminates == <>done

\* tab_details returned after it had raised two levels to the level at
\* which the descriptions no longer change.
TabDetailsTerminatesWitness ==
    /\ done
    /\ Cardinality({ix \in 0..(Len(tab_details) - 1) :
                        At(tab_details, ix) >= MaxLevel /\ description_settled(ix)}) >= 2

\* The last gesture was a drop that took the default path of
\* handle_tab_drop and found the workspace
Dropped == gesture.op \in {"drop_on_tab", "drop_on_tab_bar", "drop_on_content"}
DefaultPath == ~(custom_drop_handle /\ gesture.flow = "Break")

\* The index the listener of the drop hands to handle_tab_drop
DropIndex ==
    CASE gesture.op = "drop_on_tab" -> gesture.ix
      [] gesture.op = "drop_on_tab_bar" -> Len(items)
      [] gesture.op = "drop_on_content" -> active_item_index

\* C17: a drop on the default path with a split direction pending when
\* handle_tab_drop runs first splits the target pane in that direction and
\* then moves the item from the source pane into the pane the split
\* returned, at the drop index; with no direction pending it moves the item
\* into the target pane itself and splits nothing.
DefaultDropSplitsThenMoves ==
    (Dropped /\ DefaultPath /\ workspace = "alive") =>
        IF gesture.pending # NoDirection
        THEN /\ Len(deferred) = 2
             /\ deferred[1].call = "split_pane"
             /\ deferred[1].to = ThisPane
             /\ deferred[1].direction = gesture.pending
             /\ deferred[2].call = "move_item"
             /\ deferred[2].from = FromPane
             /\ deferred[2].to = split_pane(ThisPane, gesture.pending)
             /\ deferred[2].to # ThisPane
             /\ deferred[2].item_id = gesture.item
             /\ deferred[2].ix = DropIndex
        ELSE /\ Len(deferred) = 1
             /\ deferred[1].call = "move_item"
             /\ deferred[1].from = FromPane
             /\ deferred[1].to = ThisPane
             /\ deferred[1].item_id = gesture.item
             /\ deferred[1].ix = DropIndex

\* A tab was dropped on the content of a pane of three items whose second
\* item is active while the split direction Right was pending.
DefaultDropSplitsThenMovesWitness ==
    /\ gesture.op = "drop_on_content"
    /\ DefaultPath /\ workspace = "alive"
    /\ gesture.pending = "Right"
    /\ Len(items) = 3
    /\ active_item_index = 1
    /\ Len(deferred) = 2

\* The number of deferred calls of a method of the workspace
Calls(call) == Cardinality({k \in 1..Len(deferred) : deferred[k].call = call})

\* C18: when a custom drop handler is registered and returns Break the
\* drop defers no split and no move; when it returns Continue, or no
\* handler is registered, the drop defers the move, after a split exactly
\* when a direction is pending.
BreakSuppressesDefaultDrop ==
    (Dropped /\ workspace = "alive") =>
        /\ (custom_drop_handle /\ gesture.flow = "Break") => deferred = <<>>
        /\ (~custom_drop_handle \/ gesture.flow = "Continue") =>
              /\ Calls("move_item") = 1
              /\ deferred[Len(deferred)].call = "move_item"
              /\ Calls("split_pane") = IF gesture.pending # NoDirection THEN 1 ELSE 0

\* A registered handler returned Break for a drop on the content while a
\* split direction was pending.
BreakSuppressesDefaultDropWitness ==
    /\ gesture.op = "drop_on_content"
    /\ workspace = "alive"
    /\ custom_drop_handle
    /\ gesture.flow = "Break"
    /\ gesture.pending # NoDirection
    /\ deferred = <<>>

\* The distance of the cursor of the last drag move to an edge of its bounds
edge_distance(side) ==
    CASE side = "Up" -> gesture.y
      [] side = "Right" -> gesture.w - gesture.x
      [] side = "Down" -> gesture.h - gesture.y
      [] side = "Left" -> gesture.x

EdgeSides == {"Up", "Right", "Down", "Left"}

\* C19: with can_split set, handle_drag_move leaves drag_split_direction
\* None when the cursor is at least 33% of the shorter side away from every
\* edge, and otherwise the direction of an edge nearest to the cursor.
DragMoveSetsNearestEdge ==
    (gesture.op = "handle_drag_move" /\ can_split) =>
        IF \A side \in EdgeSides :
              edge_distance(side) * 100 >= Min(gesture.w, gesture.h) * 33
        THEN drag_split_direction = NoDirection
        ELSE /\ drag_split_direction \in EdgeSides
             /\ \A side \in EdgeSides :
                   edge_distance(drag_split_direction) <= edge_distance(side)

\* A drag move one pixel inside the right margin of bounds wider than high
\* set the direction Right.
DragMoveSetsNearestEdgeWitness ==
    /\ gesture.op = "handle_drag_move" /\ can_split
    /\ gesture.w > gesture.h
    /\ (gesture.w - gesture.x) * 100 < gesture.h * 33
    /\ gesture.w - gesture.x > 0
    /\ gesture.y * 100 >= gesture.h * 33
    /\ drag_split_direction = "Right"

\* A drag move exactly on the edge of the margins left the direction None.
DragMoveOnMarginEdgeWitness ==
    /\ gesture.op = "handle_drag_move" /\ can_split
    /\ gesture.x * 100 = Min(gesture.w, gesture.h) * 33
    /\ gesture.y * 100 = Min(gesture.w, gesture.h) * 33
    /\ drag_split_direction = NoDirection

\* C20: after any sequence of add_panel, remove_panel and handled panel
\* events the dock has no panels or active_panel_index is the index of one
\* of them.
ActivePanelIndexInRange ==
    panel_entries = <<>> \/ active_panel_index < Len(panel_entries)

\* remove_panel took a panel out of the dock, and the last of the panels
\* that are left is the active one and was told so.
ActivePanelIndexInRangeWitness ==
    /\ dock_last.op = "remove_panel"
    /\ position(panel_entries, dock_last.panel) = NoneIx
    /\ panel_entries # <<>>
    /\ active_panel_index = Len(panel_entries) - 1
    /\ panel_active[At(panel_entries, active_panel_index)]

----------------------------------------------------------------------------
\* ItemHandle::added_to_pane for Entity<T> and the subscription it makes.

\* HashMap::insert(..).is_none(): the item had no entry
subscribes_always(previous) == TRUE

subscribes(previous) == previous = NoPane

\* The match on one ItemEvent in the subscription: the calls on the pane
item_event_calls(pane, item, event) ==
    CASE event = "CloseItem" ->
             <<[pane |-> pane, call |-> "close_item_by_id", item |-> item]>>
      [] event = "UpdateTab" ->
             <<[pane |-> pane, call |-> "emit ChangeItemTitle", item |-> item]>>
      [] OTHER -> <<>>

RECURSIVE to_item_events(_, _, _)
\* T::to_item_events(event, f) with the ItemEvents it yields, in order
to_item_events(pane, item, events) ==
    IF events = <<>> THEN <<>>
    ELSE item_event_calls(pane, item, Head(events))
            \o to_item_events(pane, item, Tail(events))

\* WeakEntity::upgrade
upgrade(pane) == pane # NoPane /\ pane_status[pane] = "alive"

\* One run of the closure given to subscribe_in
subscription(item, events) ==
    LET pane == panes_by_item[item]
    IN  IF upgrade(pane) THEN to_item_events(pane, item, events) ELSE <<>>

RECURSIVE deliver(_, _, _)
\* An event of the item reaches every live subscription
deliver(n, item, events) ==
    IF n = 0 THEN <<>>
    ELSE subscription(item, events) \o deliver(n - 1, item, events)

RECURSIVE SeqsUpTo(_, _)
SeqsUpTo(S, n) ==
    IF n = 0 THEN {<<>>}
    ELSE LET shorter == SeqsUpTo(S, n - 1)
         IN  shorter \cup {Append(q, x) : q \in shorter, x \in S}

\* ItemHandle::added_to_pane
AddedToPane(item, pane) ==
    /\ item_status[item] = "alive"
    /\ pane_status[pane] = "alive"
    /\ panes_by_item' = [panes_by_item EXCEPT ![item] = pane]
    /\ event_subscription' =
          [event_subscription EXCEPT
              ![item] = IF subscribes(panes_by_item[item]) THEN @ + 1 ELSE @]
    /\ owner' = [owner EXCEPT ![item] = pane]
    /\ added_again' = [added_again EXCEPT ![item] = owner[item] # NoPane]
    /\ item_last' = [NoItemOp EXCEPT !.op = "added_to_pane", !.item = item,
                                      !.pane = pane]
    /\ UNCHANGED <<item_status, pane_status, nonItemVars>>

\* cx.emit on the item of an event that to_item_events turns into events
ItemEmits(item, events) ==
    /\ item_status[item] = "alive"
    /\ item_last' = [NoItemOp EXCEPT
                        !.op = "event", !.item = item, !.events = events,
                        !.calls = deliver(event_subscription[item], item, events)]
    /\ UNCHANGED <<panes_by_item, event_subscription, item_status, pane_status,
                   owner, added_again, nonItemVars>>

\* The item entity is dropped: the closure given to observe_release
ReleaseItem(item) ==
    /\ item_status[item] = "alive"
    /\ item_status' = [item_status EXCEPT ![item] = "released"]
    /\ panes_by_item' = [panes_by_item EXCEPT ![item] = NoPane]
    /\ event_subscription' = [event_subscription EXCEPT ![item] = 0]
    /\ item_last' = [NoItemOp EXCEPT !.op = "release_item", !.item = item]
    /\ UNCHANGED <<pane_status, owner, added_again, nonItemVars>>

\* A pane entity is dropped
ReleasePaneEntity(pane) ==
    /\ pane_status[pane] = "alive"
    /\ pane_status' = [pane_status EXCEPT ![pane] = "released"]
    /\ item_last' = [NoItemOp EXCEPT !.op = "release_pane", !.pane = pane]
    /\ UNCHANGED <<panes_by_item, event_subscription, item_status, owner,
                   added_again, nonItemVars>>

ItemNext ==
    \/ \E item \in ItemHandles, pane \in Panes : AddedToPane(item, pane)
    \/ \E item \in ItemHandles, events \in SeqsUpTo(ItemEvents, MaxItemEvents) :
          ItemEmits(item, events)
    \/ \E item \in ItemHandles : ReleaseItem(item)
    \/ \E pane \in Panes : ReleasePaneEntity(pane)

ItemSpec == Init /\ [][ItemNext]_vars

----------------------------------------------------------------------------

\* The last operation on the dock was remove_panel of a panel it found
RemovedPanel == dock_last.op = "remove_panel" /\ dock_last.panel_ix # NoneIx

\* C21: remove_panel of the panel it finds at active_panel_index leaves the
\* dock closed and active_panel_index 0, whether the dock was open or not
\* and whether panels are left or not.
RemoveActivePanelCloses ==
    (RemovedPanel /\ dock_last.panel_ix = dock_last.active_panel_index) =>
        /\ ~is_open
        /\ active_panel_index = 0

\* remove_panel took the active second panel out of an open dock and a
\* panel is left.
RemoveActivePanelClosesWitness ==
    /\ RemovedPanel
    /\ dock_last.panel_ix = 1
    /\ dock_last.active_panel_index = 1
    /\ dock_last.is_open
    /\ panel_entries # <<>>
    /\ ~is_open

\* C22: remove_panel of a panel it finds below active_panel_index lowers
\* active_panel_index by one and leaves is_open alone, and the panel that
\* was active is still the one at active_panel_index; remove_panel of a
\* panel above it, or of a panel that is not in the dock, leaves
\* active_panel_index and is_open alone.
RemoveOtherPanelKeepsActive ==
    dock_last.op = "remove_panel" =>
        /\ (dock_last.panel_ix # NoneIx
              /\ dock_last.panel_ix < dock_last.active_panel_index) =>
              /\ active_panel_index = dock_last.active_panel_index - 1
              /\ is_open = dock_last.is_open
              /\ dock_last.active_panel # NoPanel =>
                    /\ active_panel_index < Len(panel_entries)
                    /\ At(panel_entries, active_panel_index) = dock_last.active_panel
        /\ (dock_last.panel_ix = NoneIx
              \/ dock_last.panel_ix > dock_last.active_panel_index) =>
              /\ active_panel_index = dock_last.active_panel_index
              /\ is_open = dock_last.is_open
              /\ dock_last.active_panel # NoPanel =>
                    /\ active_panel_index < Len(panel_entries)
                    /\ At(panel_entries, active_panel_index) = dock_last.active_panel

\* remove_panel took the first panel out of an open dock whose second panel
\* was active.
RemoveOtherPanelKeepsActiveWitness ==
    /\ RemovedPanel
    /\ dock_last.panel_ix = 0
    /\ dock_last.active_panel_index = 1
    /\ dock_last.active_panel # NoPanel
    /\ dock_last.is_open
    /\ active_panel_index = 0
    /\ is_open

\* C23: activate_panel with panel_ix >= panels_len() leaves
\* active_panel_index as it was.
ActivatePanelOutOfRangeIsNoOp ==
    (dock_last.op = "activate_panel" /\ dock_last.panel_ix >= Len(panel_entries)) =>
        active_panel_index = dock_last.active_panel_index

\* C24: after add_panel of a panel that starts open the dock is open and
\* the new panel, the last entry, is the active one; after add_panel of a
\* panel that does not start open, is_open and active_panel_index are as
\* before.
AddPanelStartsOpen ==
    dock_last.op = "add_panel" =>
        /\ panel_entries # <<>>
        /\ At(panel_entries, Len(panel_entries) - 1) = dock_last.panel
        /\ dock_last.starts_open =>
              /\ is_open
              /\ active_panel_index = Len(panel_entries) - 1
        /\ ~dock_last.starts_open =>
              /\ is_open = dock_last.is_open
              /\ active_panel_index = dock_last.active_panel_index

\* A second panel that starts open was added to a closed dock whose first
\* panel was the active one.
AddPanelStartsOpenWitness ==
    /\ dock_last.op = "add_panel"
    /\ dock_last.starts_open
    /\ ~dock_last.is_open
    /\ dock_last.active_panel_index = 0
    /\ Len(panel_entries) = 2
    /\ active_panel_index = 1
    /\ is_open

\* C25: after the ZoomIn handler the panel of the event is zoomed, every
\* other panel of the dock is not, and the workspace records the panel and
\* the position of the panel.
ZoomInZoomsOnlyThePanel ==
    dock_last.op = "ZoomIn" =>
        /\ panel_zoomed[dock_last.panel]
        /\ \A q \in SeqToSet(panel_entries) \ {dock_last.panel} : ~panel_zoomed[q]
        /\ ws_zoomed = dock_last.panel
        /\ ws_zoomed_position = dock_last.panel_position

\* A panel zoomed in while the workspace had another panel of the dock on
\* record as the zoomed one.
ZoomInZoomsOnlyThePanelWitness ==
    /\ dock_last.op = "ZoomIn"
    /\ dock_last.ws_zoomed \in SeqToSet(panel_entries) \ {dock_last.panel}
    /\ dock_last.ws_zoomed_position = ThePosition
    /\ ws_zoomed = dock_last.panel

\* C26: the ZoomOut handler clears the zoom record of the workspace when
\* the recorded position is the position of the dock, and leaves the record
\* as it was when the recorded position is another one.
ZoomOutClearsOwnPosition ==
    dock_last.op = "ZoomOut" =>
        IF dock_last.ws_zoomed_position = ThePosition
        THEN /\ ws_zoomed = NoPanel
             /\ ws_zoomed_position = NoPosition
        ELSE /\ ws_zoomed = dock_last.ws_zoomed
             /\ ws_zoomed_position = dock_last.ws_zoomed_position

\* A panel zoomed out while a panel of another dock was the zoomed one.
ZoomOutClearsOwnPositionWitness ==
    /\ dock_last.op = "ZoomOut"
    /\ dock_last.ws_zoomed = OtherPanel
    /\ dock_last.ws_zoomed_position = "Bottom"
    /\ ws_zoomed = OtherPanel
    /\ ws_zoomed_position = "Bottom"

\* A panel zoomed out while the recorded position was the one of the dock.
ZoomOutClearsRecordWitness ==
    /\ dock_last.op = "ZoomOut"
    /\ dock_last.ws_zoomed = dock_last.panel
    /\ dock_last.ws_zoomed_position = ThePosition
    /\ ws_zoomed = NoPanel

\* The dock was open and the panel of the last event was the one at
\* active_panel_index
WasVisible ==
    /\ dock_last.is_open
    /\ dock_last.active_panel = dock_last.panel

\* C27: the Close handler closes the dock when the dock was open and the
\* panel of the event was the one at active_panel_index; otherwise is_open
\* stays as it was; active_panel_index stays as it was in every case.
CloseClosesVisiblePanel ==
    dock_last.op = "Close" =>
        /\ is_open = (dock_last.is_open /\ ~WasVisible)
        /\ active_panel_index = dock_last.active_panel_index

\* The panel that is not the active one sent Close to an open dock, which
\* stayed open.
CloseClosesVisiblePanelWitness ==
    /\ dock_last.op = "Close"
    /\ dock_last.is_open
    /\ dock_last.active_panel # NoPanel
    /\ dock_last.active_panel # dock_last.panel
    /\ is_open

\* The visible panel sent Close and the dock closed.
CloseVisiblePanelWitness ==
    /\ dock_last.op = "Close"
    /\ WasVisible
    /\ ~is_open

\* C28: after the Activate handler for a panel of the dock the dock is open
\* and active_panel_index is the index of the panel.
ActivateOpensAndActivates ==
    dock_last.op = "Activate" =>
        /\ is_open
        /\ active_panel_index = dock_last.panel_ix
        /\ active_panel_index < Len(panel_entries)
        /\ At(panel_entries, active_panel_index) = dock_last.panel

\* The second panel of a closed dock whose first panel was active sent
\* Activate.
ActivateOpensAndActivatesWitness ==
    /\ dock_last.op = "Activate"
    /\ ~dock_last.is_open
    /\ dock_last.active_panel_index = 0
    /\ dock_last.panel_ix = 1
    /\ is_open
    /\ active_panel_index = 1

\* An event of an item was the last thing to happen
ItemEmitted == item_last.op = "event" /\ owner[item_last.item] # NoPane

\* The pane of the last added_to_pane call for the item of the last event
Owner == owner[item_last.item]

\* C29: an event of an item that added_to_pane was called for makes calls
\* on the pane of the last added_to_pane call for the item and on no other:
\* for every CloseItem one close_item_by_id for the item, for every
\* UpdateTab one ChangeItemTitle emitted by the pane, however often
\* added_to_pane was called; when that pane is gone, it makes no call.
ItemEventsRouted ==
    ItemEmitted =>
        IF pane_status[Owner] = "alive"
        THEN /\ Len(item_last.calls) =
                    Len(SelectSeq(item_last.events,
                                  LAMBDA e : e \in {"CloseItem", "UpdateTab"}))
             /\ \A i \in 1..Len(item_last.calls) :
                    /\ item_last.calls[i].pane = Owner
                    /\ item_last.calls[i].item = item_last.item
             /\ Len(SelectSeq(item_last.calls,
                              LAMBDA c : c.call = "close_item_by_id")) =
                    Len(SelectSeq(item_last.events, LAMBDA e : e = "CloseItem"))
             /\ Len(SelectSeq(item_last.calls,
                              LAMBDA c : c.call = "emit ChangeItemTitle")) =
                    Len(SelectSeq(item_last.events, LAMBDA e : e = "UpdateTab"))
        ELSE item_last.calls = <<>>

\* An item that was added to a pane and then to another one sent CloseItem,
\* and the second pane got the one call.
ItemEventsRoutedWitness ==
    /\ ItemEmitted
    /\ added_again[item_last.item]
    /\ item_last.events = <<"CloseItem">>
    /\ item_last.calls =
          <<[pane |-> Owner, call |-> "close_item_by_id", item |-> item_last.item]>>

\* An item sent UpdateTab after its pane was dropped.
ItemEventsIgnoredWitness ==
    /\ ItemEmitted
    /\ pane_status[Owner] = "released"
    /\ item_last.events = <<"UpdateTab">>
    /\ item_last.calls = <<>>

\* The task that close_inactive_items spawned has finished and nothing ran
\* between the call and the end of the task
ClosedInactiveItems(t) ==
    /\ tasks[t].pc = "done"
    /\ ~tasks[t].interleaved
    /\ tasks[t].kind = "close_inactive_items"

\* C30: when the task of close_inactive_items has finished and nothing
\* interleaved, the pane holds the item that was active at the call and no
\* other, and active_item_index is 0.
CloseInactiveKeepsActive ==
    \A t \in Tasks :
        ClosedInactiveItems(t) =>
            /\ items = <<tasks[t].active_item>>
            /\ active_item_index = 0

\* close_inactive_items was called on three items with the middle one
\* active and its task has finished.
CloseInactiveKeepsActiveWitness ==
    \E t \in Tasks :
        /\ ClosedInactiveItems(t)
        /\ Len(tasks[t].snapshot) = 3
        /\ tasks[t].snapshot[2] = tasks[t].active_item
        /\ items = <<tasks[t].active_item>>

----------------------------------------------------------------------------
\* Pane::close_items_to_the_left, Pane::close_items_to_the_right and their
\* _by_id forms.

Reverse(s) == [k \in 1..Len(s) |-> s[Len(s) + 1 - k]]

RECURSIVE take_while_ne(_, _)
\* .take_while(|item| item.item_id() != item_id)
take_while_ne(its, item_id) ==
    IF its = <<>> \/ Head(its) = item_id THEN <<>>
    ELSE <<Head(its)>> \o take_while_ne(Tail(its), item_id)

ids_to_the_left_with(its, item_id) ==
    SeqToSet(take_while_ne(its, item_id)) \cup (SeqToSet(its) \cap {item_id})

\* item_ids of close_items_to_the_left_by_id
ids_to_the_left(its, item_id) == SeqToSet(take_while_ne(its, item_id))

ids_to_the_right_none(its, item_id) ==
    IF item_id \in SeqToSet(its)
    THEN SeqToSet(take_while_ne(Reverse(its), item_id)) ELSE {}

\* item_ids of close_items_to_the_right_by_id
ids_to_the_right(its, item_id) == SeqToSet(take_while_ne(Reverse(its), item_id))

\* A pane that holds up to NumItems distinct items in any order, one of
\* them active, as add_item and activate_item leave it
AnyPane ==
    /\ items \in {q \in SeqsUpTo(ItemIds, NumItems) :
                    \A i, j \in 1..Len(q) : q[i] = q[j] => i = j}
    /\ active_item_index \in {i \in 0..NumItems : i = 0 \/ i < Len(items)}
    /\ zoomed = FALSE
    /\ emitted = <<>>
    /\ deactivated = <<>>
    /\ tasks = [t \in Tasks |-> IdleTask]
    /\ last = [op |-> "new", task |-> NoTask, item |-> NoItem, index |-> NoneIx,
               items |-> <<>>, active_item_index |-> 0]
    /\ status = "alive"
    /\ NoTabDetails
    /\ DragNew
    /\ DockNew
    /\ ItemNew
    /\ LogNew

\* A call that spawns the task, or returns None, or panics on the index
SpawnClose(t, op, task) ==
    /\ status = "alive"
    /\ tasks[t].pc # "running"
    /\ UNCHANGED nonPaneVars
    /\ UNCHANGED <<items, active_item_index, zoomed, emitted, deactivated>>
    /\ last' = StepOp(op, t, NoItem)
    /\ IF task.pc = "panicked"
       THEN /\ status' = "panicked"
            /\ tasks' = Interleave(NoTask)
       ELSE /\ status' = status
            /\ tasks' = [Interleave(t) EXCEPT ![t] = task]

\* The task of close_items_to_the_left_by_id
left_by_id(item_id) ==
    [started_task(ids_to_the_left(items, item_id), item_id)
        EXCEPT !.kind = "close_items_to_the_left_by_id"]

\* The task of close_items_to_the_right_by_id
right_by_id(item_id) ==
    [started_task(ids_to_the_right(items, item_id), item_id)
        EXCEPT !.kind = "close_items_to_the_right_by_id"]

\* if self.items.is_empty() { return None }; self.items[self.active_item_index]
of_active_item(by_id, kind) ==
    IF items = <<>> THEN IdleTask
    ELSE IF active_item_index >= Len(items) THEN [IdleTask EXCEPT !.pc = "panicked"]
    ELSE [by_id EXCEPT !.kind = kind]

CloseItemsToTheLeftById(t, item_id) ==
    SpawnClose(t, "close_items_to_the_left_by_id", left_by_id(item_id))

CloseItemsToTheRightById(t, item_id) ==
    SpawnClose(t, "close_items_to_the_right_by_id", right_by_id(item_id))

CloseItemsToTheLeft(t) ==
    SpawnClose(t, "close_items_to_the_left",
               of_active_item(left_by_id(At(items, active_item_index)),
                              "close_items_to_the_left"))

CloseItemsToTheRight(t) ==
    SpawnClose(t, "close_items_to_the_right",
               of_active_item(right_by_id(At(items, active_item_index)),
                              "close_items_to_the_right"))

\* One task at a time that closes the items on a side, run to its end
SideNext ==
    \/ \E item_id \in ItemIds : CloseItemsToTheLeftById(1, item_id)
    \/ \E item_id \in ItemIds : CloseItemsToTheRightById(1, item_id)
    \/ CloseItemsToTheLeft(1)
    \/ CloseItemsToTheRight(1)
    \/ \E has_focus \in BOOLEAN : TaskStep(1, has_focus)
    \/ TaskFinish(1)

SideSpec == AnyPane /\ [][SideNext]_vars

\* The task of the given kind has finished and nothing ran between the call
\* and the end of the task
Closed(t, kind) ==
    /\ tasks[t].pc = "done"
    /\ ~tasks[t].interleaved
    /\ tasks[t].kind = kind

\* Where the item the task was given stood when the call was made, from 1
PlaceAtCall(t) == position(tasks[t].snapshot, tasks[t].active_item) + 1

\* The item the task was given is the active one
StillActive(t) ==
    /\ active_item_index < Len(items)
    /\ At(items, active_item_index) = tasks[t].active_item

\* C31: when the task of close_items_to_the_left has finished and nothing
\* interleaved, the pane holds the item that was active at the call and the
\* items that followed it, in their order; for close_items_to_the_right it
\* holds the items that preceded the active one and the active one, in
\* their order; in both cases the item that was active is the active item.
CloseSideKeepsRest ==
    \A t \in Tasks :
        /\ Closed(t, "close_items_to_the_left") =>
              /\ items = SubSeq(tasks[t].snapshot, PlaceAtCall(t), Len(tasks[t].snapshot))
              /\ StillActive(t)
        /\ Closed(t, "close_items_to_the_right") =>
              /\ items = SubSeq(tasks[t].snapshot, 1, PlaceAtCall(t))
              /\ StillActive(t)

\* close_items_to_the_left closed one item in front of the active one and
\* left one behind it.
CloseSideKeepsRestWitness ==
    \E t \in Tasks :
        /\ Closed(t, "close_items_to_the_left")
        /\ Len(tasks[t].snapshot) = 3
        /\ PlaceAtCall(t) = 2
        /\ Len(items) = 2
        /\ active_item_index = 0

\* close_items_to_the_right closed one item behind the active one and left
\* one in front of it.
CloseRightKeepsRestWitness ==
    \E t \in Tasks :
        /\ Closed(t, "close_items_to_the_right")
        /\ Len(tasks[t].snapshot) = 3
        /\ PlaceAtCall(t) = 2
        /\ Len(items) = 2
        /\ active_item_index = 1

\* The task was given an id that no item of the pane had
GivenMissingId(t) == tasks[t].active_item \notin SeqToSet(tasks[t].snapshot)

\* C40: when the task of close_items_to_the_left_by_id or of
\* close_items_to_the_right_by_id, called with an id that no item of the
\* pane has, has finished and nothing interleaved, the pane is empty.
CloseSideMissingIdClosesAll ==
    \A t \in Tasks :
        ((Closed(t, "close_items_to_the_left_by_id")
            \/ Closed(t, "close_items_to_the_right_by_id"))
          /\ GivenMissingId(t)) =>
            items = <<>>

\* close_items_to_the_left_by_id with an id not in the pane emptied a pane
\* of two items.
CloseSideMissingIdClosesAllWitness ==
    \E t \in Tasks :
        /\ Closed(t, "close_items_to_the_left_by_id")
        /\ GivenMissingId(t)
        /\ Len(tasks[t].snapshot) = 2
        /\ items = <<>>

\* close_items_to_the_right_by_id with an id not in the pane emptied a pane
\* of two items.
CloseRightMissingIdClosesAllWitness ==
    \E t \in Tasks :
        /\ Closed(t, "close_items_to_the_right_by_id")
        /\ GivenMissingId(t)
        /\ Len(tasks[t].snapshot) = 2
        /\ items = <<>>

\* The items of a list that are not the given one, in their order
Others(its, item) == SelectSeq(its, LAMBDA id : id # item)

\* C32: after add_item the items other than the given one are the ones
\* that were in the pane before the call, in the same order, and the given
\* item is in the pane once.
AddItemKeepsOthers ==
    last.op = "add_item" =>
        /\ Others(items, last.item) = Others(last.items, last.item)
        /\ Occurrences(items, last.item) = 1

\* add_item moved an item of a pane of three items to another place.
AddItemKeepsOthersWitness ==
    /\ last.op = "add_item"
    /\ Len(last.items) = 3
    /\ last.item \in SeqToSet(last.items)
    /\ items # last.items

\* add_item put a new item between two items.
AddItemInsertsWitness ==
    /\ last.op = "add_item"
    /\ Len(last.items) = 2
    /\ last.item \notin SeqToSet(last.items)
    /\ Len(items) = 3
    /\ items[2] = last.item

\* The description of the item at ix at its level at the start of a round
current_description(ix) == description(tab_description, ix, At(tab_details, ix))

TabIxs == 0..(Len(tab_details) - 1)

\* The item at ix has a description that another item has too
shares_description(ix) ==
    /\ current_description(ix) # NoDescription
    /\ \E j \in TabIxs \ {ix} : current_description(j) = current_description(ix)

\* The item at ix has a description, and at a level above 0 it is not the
\* one of the level below
description_changed(ix) ==
    /\ current_description(ix) # NoDescription
    /\ \/ At(tab_details, ix) = 0
       \/ current_description(ix) #
             description(tab_description, ix, At(tab_details, ix) - 1)

\* The item at ix and another item have the same description, and for both
\* it changed with the last level
shares_changed_description(ix) ==
    /\ description_changed(ix)
    /\ \E j \in TabIxs \ {ix} :
          /\ description_changed(j)
          /\ current_description(j) = current_description(ix)

\* C33 as stated: a round raises by one the level of every item whose
\* description another item has too, and keeps the level of every other
\* item.
RoundRaisesShared ==
    [][TabDetailsRound =>
          \A ix \in TabIxs :
              At(tab_details', ix) =
                  At(tab_details, ix) + IF shares_description(ix) THEN 1 ELSE 0]_vars

\* C33, amended: a round raises by one the level of every item whose
\* description changed with its last level (or is at level 0) and is the
\* description of another such item, and keeps the level of every other
\* item.
RoundRaisesSharedChanged ==
    [][TabDetailsRound =>
          \A ix \in TabIxs :
              At(tab_details', ix) =
                  At(tab_details, ix)
                      + IF shares_changed_description(ix) THEN 1 ELSE 0]_vars

\* The loop ended with two items at level 1 that have the same description
\* there as at level 0: the first round raised both, the second raised
\* neither although they share the description.
RoundRaisesSharedChangedWitness ==
    /\ done
    /\ tab_details = <<1, 1>>
    /\ current_description(0) # NoDescription
    /\ current_description(0) = current_description(1)
    /\ ~description_changed(0)
    /\ ~description_changed(1)

\* The last call was remove_item of the item that was active
RemovedActiveItem == RemovedItem /\ last.index = last.active_item_index

\* C34: remove_item of the active item calls the deactivated hook of that
\* item exactly once, at every index and with every number of items.
RemovedActiveItemDeactivatedOnce ==
    RemovedActiveItem =>
        Occurrences(deactivated, At(last.items, last.index)) = 1

----------------------------------------------------------------------------
\* Two close_items tasks on one pane, their steps in any order.

\* cx.emit of the events of one step, counted
count_removals(log, evs) ==
    [id \in DOMAIN log |->
        log[id] + IF id = NoItem THEN Count(evs, "Remove")
                  ELSE Occurrences(RemovedIds(evs), id)]

\* Write the pane back after a step of one of the two tasks
CommitLogged(p) ==
    /\ items' = p.items
    /\ active_item_index' = p.active_item_index
    /\ zoomed' = p.zoomed
    /\ emitted' = p.emitted
    /\ deactivated' = p.deactivated
    /\ removals' = count_removals(removals, p.emitted)
    /\ status' = status
    /\ UNCHANGED <<tabVars, dragVars, dockVars, itemVars>>

\* Pane::close_items, called once for each of the two tasks
PairCloseItems(t, should_close) ==
    /\ status = "alive"
    /\ tasks[t].pc = "idle"
    /\ CommitLogged(ThePane)
    /\ tasks' = [tasks EXCEPT ![t] = started_task(should_close, NoItem)]
    /\ last' = StepOp("close_items", t, NoItem)

\* One iteration of the loop of the task t
PairStep(t, has_focus) ==
    /\ tasks[t].pc = "running"
    /\ tasks[t].remaining # <<>>
    /\ LET item == Head(tasks[t].remaining)
           p == update_in(status, ThePane, close_step(ThePane, item, has_focus))
       IN  /\ CommitLogged(p)
           /\ tasks' = [tasks EXCEPT ![t] =
                           [@ EXCEPT !.remaining = Tail(@),
                                     !.removed = @ \o RemovedIds(p.emitted),
                                     !.skipped = @ \/ position(items, item) = NoneIx]]
           /\ last' = StepOp("task_step", t, item)

\* pane.update(&mut cx, |_, cx| cx.notify()).ok(); Ok(())
PairFinish(t) ==
    /\ tasks[t].pc = "running"
    /\ tasks[t].remaining = <<>>
    /\ CommitLogged(ThePane)
    /\ tasks' = [tasks EXCEPT ![t].pc = "done"]
    /\ last' = StepOp("task_finish", t, NoItem)

PairNext ==
    \E t \in 1..2 :
        \/ \E should_close \in SUBSET ItemIds : PairCloseItems(t, should_close)
        \/ \E has_focus \in BOOLEAN : PairStep(t, has_focus)
        \/ PairFinish(t)

PairSpec == DropInit /\ [][PairNext]_vars

\* The ids of the items the task t collected when close_items was called
Captured(t) == SeqToSet(tasks[t].snapshot) \ SeqToSet(tasks[t].kept)

\* An item that one of the tasks collected is no longer in the pane
Gone(id) ==
    /\ id \notin SeqToSet(items)
    /\ \E t \in Tasks : id \in Captured(t)

\* C35: with two close_items tasks on the pane, their steps in any order,
\* RemoveItem has been emitted once for every item that a task collected
\* and that is gone, and never for another item, no item that no task
\* collected is gone, and Remove has been emitted once when the tasks
\* emptied the pane and never otherwise.
TwoTasksRemoveOnce ==
    /\ \A id \in ItemIds : removals[id] = IF Gone(id) THEN 1 ELSE 0
    /\ \A t \in Tasks : \A id \in SeqToSet(tasks[t].kept) :
          (\A u \in Tasks : id \notin Captured(u)) => id \in SeqToSet(items)
    /\ removals[NoItem] =
          IF items = <<>> /\ \E id \in ItemIds : Gone(id) THEN 1 ELSE 0

\* Two tasks that had collected the same two items have both finished,
\* each found an item already closed by the other, and the pane is empty.
TwoTasksRemoveOnceWitness ==
    /\ tasks[1].pc = "done"
    /\ tasks[2].pc = "done"
    /\ Cardinality(Captured(1) \cap Captured(2)) >= 2
    /\ tasks[1].skipped
    /\ tasks[2].skipped
    /\ tasks[1].removed # <<>>
    /\ tasks[2].removed # <<>>
    /\ items = <<>>
    /\ removals[NoItem] = 1

----------------------------------------------------------------------------
\* One close_items task and the calls of add_item and remove_item that run
\* between its steps.  The task record keeps the predicate (should_close),
\* the ids that add_item put into the pane after the call (added) and the
\* ids the task removed while they were among those (late).

next_to_close_by_predicate(task, its) ==
    LET matching == SelectSeq(its, LAMBDA id : id \in task.should_close)
    IN  IF matching # <<>> THEN Head(matching) ELSE Head(task.remaining)

\* for item in items_to_close: the item of the next iteration
next_to_close(task, its) == Head(task.remaining)

\* The pane without the log of the events and hooks of the call: of a step
\* of the task only the ids it removed are kept, in the task record
unlogged(p) == [p EXCEPT !.emitted = <<>>, !.deactivated = <<>>]

LateCloseItems(t, should_close) ==
    /\ status = "alive"
    /\ tasks[t].pc = "idle"
    /\ CommitStep(ThePane)
    /\ tasks' = [tasks EXCEPT ![t] =
                    [started_task(should_close, NoItem)
                        EXCEPT !.should_close = should_close]]
    /\ last' = StepOp("close_items", t, NoItem)

\* Pane::add_item between two steps of the task
LateAddItem(t, item, destination_index) ==
    /\ tasks[t].pc = "running"
    /\ Commit(add_item(ThePane, item, FALSE, destination_index))
    /\ tasks' = [tasks EXCEPT ![t].added =
                    IF position(items, item) = NoneIx THEN @ \cup {item} ELSE @]
    /\ last' = StepOp("other", NoTask, NoItem)

\* Pane::remove_item between two steps of the task
LateRemoveItem(t, item_index) ==
    /\ tasks[t].pc = "running"
    /\ item_index < Len(items)
    /\ Commit(remove_item(ThePane, item_index, FALSE, FALSE))
    /\ UNCHANGED tasks
    /\ last' = StepOp("other", NoTask, NoItem)

\* One iteration of the loop of the task
LateStep(t, has_focus) ==
    /\ tasks[t].pc = "running"
    /\ tasks[t].remaining # <<>>
    /\ LET item == next_to_close(tasks[t], items)
           p == update_in(status, ThePane, close_step(ThePane, item, has_focus))
           removed == RemovedIds(p.emitted)
       IN  /\ CommitStep(unlogged(p))
           /\ tasks' = [tasks EXCEPT ![t] =
                           [@ EXCEPT !.remaining = Tail(@),
                                     !.removed = @ \o removed,
                                     !.late = @ \cup (SeqToSet(removed)
                                                        \cap tasks[t].added),
                                     !.skipped = @ \/ position(items, item) = NoneIx]]
           /\ last' = StepOp("task_step", t, NoItem)

\* pane.update(&mut cx, |_, cx| cx.notify()).ok(); Ok(())
LateFinish(t) ==
    /\ tasks[t].pc = "running"
    /\ tasks[t].remaining = <<>>
    /\ CommitStep(ThePane)
    /\ tasks' = [tasks EXCEPT ![t].pc = "done"]
    /\ last' = StepOp("task_finish", t, NoItem)

LateNext ==
    \/ \E should_close \in SUBSET ItemIds : LateCloseItems(1, should_close)
    \/ \E item \in ItemIds, destination_index \in {NoneIx} :
          LateAddItem(1, item, destination_index)
    \/ \E item_index \in 0..(NumItems - 1) : LateRemoveItem(1, item_index)
    \/ \E has_focus \in BOOLEAN : LateStep(1, has_focus)
    \/ LateFinish(1)

LateSpec == DropInit /\ [][LateNext]_vars

\* C36 as stated: a close_items task never removes an item that add_item
\* put into the pane after close_items was called.
LateItemsNeverRemoved ==
    \A t \in Tasks : tasks[t].late = {}

\* C36, amended: a close_items task removes only items whose ids it
\* collected when close_items was called; an item that add_item put into
\* the pane after the call and that was not collected is never removed by
\* the task, whether or not its id satisfies the predicate.
OnlyCollectedItemsRemoved ==
    \A t \in Tasks :
        /\ SeqToSet(tasks[t].removed) \subseteq Captured(t)
        /\ tasks[t].late \subseteq Captured(t)
        /\ \A id \in SeqToSet(tasks[t].removed) : Occurrences(tasks[t].removed, id) = 1

\* The task has finished and closed an item, and an item that was added
\* after the call and satisfies the predicate is still in the pane.
OnlyCollectedItemsRemovedWitness ==
    \E t \in Tasks :
        /\ tasks[t].pc = "done"
        /\ tasks[t].removed # <<>>
        /\ \E id \in (tasks[t].added \cap tasks[t].should_close) \ Captured(t) :
              id \in SeqToSet(items)

\* C37: after a drop on a tab, on the tab bar or on the content area,
\* drag_split_direction is None.
DropClearsSplitDirection ==
    Dropped => drag_split_direction = NoDirection

\* C38: a drop on a pane whose can_split is false defers no split_pane.
NoSplitWhileCanSplitIsFalse ==
    (Dropped /\ ~can_split) => Calls("split_pane") = 0

----------------------------------------------------------------------------
\* The calls on a dock that move the active flag of its panels.

\* Dock::activate_panel with the index of an entry
ActivateEntry(panel_ix) ==
    /\ panel_ix < Len(panel_entries)
    /\ ActivatePanel(panel_ix)

\* Dock::set_open
SetOpen(open) ==
    /\ CommitDock(set_open(TheDock, open))
    /\ dock_last' = [DockOp("set_open", NoPanel) EXCEPT !.starts_open = open]
    /\ UNCHANGED <<ws_zoomed, ws_zoomed_position>>

DockActiveNext ==
    \/ \E panel \in PanelIds, starts_open \in BOOLEAN : AddPanel(panel, starts_open)
    \/ \E panel \in PanelIds : RemovePanel(panel)
    \/ \E panel \in PanelIds : Activate(panel)
    \/ \E panel \in PanelIds : Close(panel)
    \/ \E panel_ix \in 0..(NumPanels - 1) : ActivateEntry(panel_ix)
    \/ \E open \in BOOLEAN : SetOpen(open)

DockActiveSpec == Init /\ [][DockActiveNext]_vars

\* C39: a panel of the dock whose last set_active value is true is the
\* entry at active_panel_index, and the dock is open.
ActivePanelIsVisible ==
    \A panel \in SeqToSet(panel_entries) :
        panel_active[panel] =>
            /\ is_open
            /\ active_panel_index < Len(panel_entries)
            /\ At(panel_entries, active_panel_index) = panel

====
